---- MODULE Spec2Model ----
(***************************************************************************)
(* Verification model of the AUVAP hierarchical decision-and-state engine: *)
(*   StateManager   (src/src/environment/state_manager.py)                 *)
(*   RewardMachine  (src/src/rewards/reward_machines.py)                   *)
(*   ActionMasker   (src/src/knowledge_graph/action_masking.py)            *)
(*   ManagerAgent   (src/src/agents/manager.py)                            *)
(*   WorkerAgent    (src/src/agents/worker.py)                             *)
(*   train_auvap    (src/scripts/train_auvap.py)                           *)
(* Python None is the string "None"; dicts are functions whose DOMAIN is   *)
(* the key set; floats that only take integral values are integers.        *)
(***************************************************************************)
EXTENDS Integers, Sequences, FiniteSets, TLC

(***************************************************************************)
(* Universes the inputs are drawn from.                                    *)
(***************************************************************************)
None == "None"

HostIds == {"h1", "h2"}

Privileges == {"none", "user", "admin", "system"}

\* the privilege order none < user < admin < system of HostState.privilege_level
PrivRank(p) ==
    CASE p = "none" -> 0
      [] p = "user" -> 1
      [] p = "admin" -> 2
      [] p = "system" -> 3

\* PenetrationPhase, in declaration order (list(PenetrationPhase))
phase_order ==
    << "reconnaissance", "initial_access", "lateral_movement",
       "privilege_escalation", "goal_achieved" >>

Phases == { phase_order[i] : i \in 1..Len(phase_order) }

\* phase_order.index(p)
PhaseIndex(p) == CHOOSE i \in 1..Len(phase_order) : phase_order[i] = p

Range(s) == { s[i] : i \in 1..Len(s) }

\* the empty dict
EmptyDict == [ k \in {} |-> None ]

\* RewardMachine.__init__ defaults
phase_transition_reward == 5
milestone_reward == 2
goal_achievement_reward == 20

VARIABLES
    \* ---- StateManager ----
    hosts,                \* host_id -> HostState
    connectivity_matrix,  \* set of <<source, target>> edges
    privilege_matrix,     \* host_id -> privilege
    credentials,          \* cred_id -> [type, scope, discovered_at]
    action_history,       \* sequence of ActionRecord
    current_step,
    current_host,
    goal_hosts,
    compromised_goals,
    edge_calls,           \* history: the (source, target) of the add_connection calls since the last reset
    since_scan,           \* history: host_id -> record_action calls since its last mark_scanned
    \* ---- RewardMachine ----
    current_phase,
    phase_history,
    milestones,           \* phase -> list of milestone names
    \* ---- the last call: its name and what it computed ----
    op,
    new_phase,            \* update: the phase derived from the state
    bonus_reward,         \* update: the value returned
    milestone_bonus,      \* update: the value _check_milestones returned
    goal_bonus,           \* update: the goal part of bonus_reward
    action_metadata,      \* get_valid_actions: its argument
    mask,                 \* get_valid_actions: the mask it returned
    top_k,                \* get_recommended_actions: its top_k argument
    recommendations,      \* get_recommended_actions: the list it returned
    last_action,          \* action_to_decision: its action argument
    last_adaptive,        \* action_to_decision: its adaptive_budget argument
    last_priorities,      \* get_action_priorities: the scores it returned
    last_valid_mask,      \* get_action_priorities: its valid_mask argument
    worker_feedback,      \* get_feedback: the dict it returned
    last_result,          \* calculate_reward: its action_result argument
    last_cost,            \* calculate_reward: its action_cost argument
    last_valid,           \* calculate_reward: its action_valid argument
    last_host,            \* a call that names a host: its host_id or current_host argument
    explanation,          \* explain_invalid_action: the reason it returned
    milestone_payments,   \* history: milestone name -> times its bonus was paid since reset
    \* ---- WorkerAgent ----
    current_task,         \* ManagerDecision or NoDecision
    budget_remaining,
    actions_taken,
    step_rewards,
    actions_success,
    feedback,             \* should_stop: its argument
    stop_result,          \* should_stop: the pair it returned
    cycle_actions,        \* history: the (reward, success) pairs recorded since set_task
    \* ---- ManagerAgent ----
    max_hosts,
    default_budget,
    budget_range,         \* <<min, max>>
    current_decision,     \* ManagerDecision or NoDecision
    decision_history,
    subgoal_success_rates,\* subgoal -> list of booleans
    \* ---- train_auvap ----
    pc,                   \* where the training script stands
    episode_length,
    done,
    manager_steps,
    info,                 \* the info dict of the last env.step
    step_reward           \* the value calculate_reward returned in the last step

stateVars ==
    << hosts, connectivity_matrix, privilege_matrix, credentials, action_history,
       current_step, current_host, goal_hosts, compromised_goals, since_scan,
       edge_calls >>

rmVars == << current_phase, phase_history, milestones, milestone_payments >>

callVars == << new_phase, bonus_reward, milestone_bonus, goal_bonus >>

maskVars == << action_metadata, mask, top_k, recommendations >>

decisionArgs == << last_action, last_adaptive >>

queryVars ==
    << last_priorities, last_valid_mask, worker_feedback, last_result, last_cost,
       last_valid, last_host, explanation >>

workerVars ==
    << current_task, budget_remaining, actions_taken, step_rewards, actions_success,
       feedback, stop_result, cycle_actions >>

managerVars ==
    << max_hosts, default_budget, budget_range, current_decision, decision_history,
       subgoal_success_rates >>

loopVars == << pc, episode_length, done, manager_steps, info, step_reward >>

vars ==
    << stateVars, rmVars, op, callVars, maskVars, decisionArgs, queryVars,
       workerVars, managerVars, loopVars >>

(***************************************************************************)
(* StateManager                                                            *)
(***************************************************************************)
\* HostState(host_id, value=v) with the dataclass defaults
HostState(v) ==
    [ discovered |-> FALSE, owned |-> FALSE, privilege_level |-> "none",
      services |-> << >>, vulnerabilities |-> << >>,
      value |-> v, last_scan_time |-> 0, scan_count |-> 0 ]

get_owned_hosts == { h \in DOMAIN hosts : hosts[h].owned }

get_discovered_hosts == { h \in DOMAIN hosts : hosts[h].discovered }

\* StateManager.get_host_by_id
get_host_by_id(h) == IF h \in DOMAIN hosts THEN hosts[h] ELSE None

get_privilege(h) ==
    IF h \in DOMAIN privilege_matrix THEN privilege_matrix[h] ELSE "none"

\* StateManager.__init__ default
scan_cooldown == 5

\* a can_scan that waits one step longer than the cooldown
can_scan_Late(h) ==
    IF h \notin DOMAIN hosts THEN TRUE
    ELSE current_step - hosts[h].last_scan_time > scan_cooldown

\* StateManager.can_scan
can_scan(h) ==
    IF h \notin DOMAIN hosts THEN TRUE
    ELSE current_step - hosts[h].last_scan_time >= scan_cooldown

get_unexplored_hosts ==
    { h \in DOMAIN hosts : hosts[h].discovered /\ ~hosts[h].owned /\ can_scan(h) }

can_reach(source, target) == << source, target >> \in connectivity_matrix

get_reachable_hosts(source) ==
    { e[2] : e \in { x \in connectivity_matrix : x[1] = source } }

\* an add_connection that records the link in both directions
AddConnection_Symmetric(source, target) ==
    /\ connectivity_matrix' =
          connectivity_matrix \cup { << source, target >>, << target, source >> }
    /\ edge_calls' = edge_calls \cup { << source, target >> }
    /\ UNCHANGED << hosts, privilege_matrix, credentials, action_history, since_scan,
                    current_step, current_host, goal_hosts, compromised_goals >>

\* StateManager.add_connection
AddConnection(source, target) ==
    /\ connectivity_matrix' = connectivity_matrix \cup { << source, target >> }
    /\ edge_calls' = edge_calls \cup { << source, target >> }
    /\ UNCHANGED << hosts, privilege_matrix, credentials, action_history, since_scan,
                    current_step, current_host, goal_hosts, compromised_goals >>

\* ActionRecord(...), a newly built object with the fields the state manager
\* and its readers use; `object` is the identity of the Python object, which
\* no entry of the history has yet
ActionRecord(step, action_type, target_host, success) ==
    [ object |-> Len(action_history) + 1, step |-> step, action_type |-> action_type,
      target_host |-> target_host, success |-> success ]

\* StateManager.record_action: `action.step = self.current_step` writes to the
\* object passed in, which the history holds by reference, so every entry
\* that is this object shows the new step
RecordAction(action) ==
    /\ action_history' =
          Append([ i \in 1..Len(action_history) |->
                     IF action_history[i].object = action.object
                       THEN [ action_history[i] EXCEPT !.step = current_step ]
                       ELSE action_history[i] ],
                 [ action EXCEPT !.step = current_step ])
    /\ current_step' = current_step + 1
    /\ since_scan' = [ h \in DOMAIN since_scan |-> since_scan[h] + 1 ]
    /\ UNCHANGED << hosts, connectivity_matrix, privilege_matrix, credentials, edge_calls,
                    current_host, goal_hosts, compromised_goals >>

\* StateManager.has_credential_for
has_credential_for(host_id) ==
    \E cred_id \in DOMAIN credentials : host_id \in credentials[cred_id].scope

\* StateManager.add_credential; the scope list is kept as the set of its hosts
AddCredential(cred_id, cred_type, scope) ==
    /\ credentials' =
          [ k \in (DOMAIN credentials) \cup {cred_id} |->
              IF k = cred_id
                THEN [ type |-> cred_type, scope |-> scope,
                       discovered_at |-> current_step ]
                ELSE credentials[k] ]
    /\ UNCHANGED << hosts, connectivity_matrix, privilege_matrix, action_history, since_scan, edge_calls,
                    current_step, current_host, goal_hosts, compromised_goals >>

\* state.current_host = h: the field has no setter, callers assign it
SetCurrentHost(h) ==
    /\ current_host' = h
    /\ UNCHANGED << hosts, connectivity_matrix, privilege_matrix, credentials,
                    action_history, since_scan, edge_calls, current_step, goal_hosts, compromised_goals >>

\* the phase with the privilege check ahead of the discovered > owned check
get_penetration_phase_EscalationFirst ==
    LET owned == Cardinality(get_owned_hosts)
        discovered == Cardinality(get_discovered_hosts)
    IN  IF goal_hosts # {} /\ Cardinality(compromised_goals) = Cardinality(goal_hosts)
          THEN "goal_achieved"
        ELSE IF owned = 0
          THEN IF discovered = 0 THEN "reconnaissance" ELSE "initial_access"
        ELSE IF \E h \in get_owned_hosts : get_privilege(h) \in {"user", "none"}
          THEN "privilege_escalation"
        ELSE "lateral_movement"

\* StateManager.get_penetration_phase
get_penetration_phase ==
    LET owned == Cardinality(get_owned_hosts)
        discovered == Cardinality(get_discovered_hosts)
    IN  IF goal_hosts # {} /\ Cardinality(compromised_goals) = Cardinality(goal_hosts)
          THEN "goal_achieved"
        ELSE IF owned = 0
          THEN IF discovered = 0 THEN "reconnaissance" ELSE "initial_access"
        ELSE IF owned > 0 /\ discovered > owned
          THEN "lateral_movement"
        ELSE IF \E h \in get_owned_hosts : get_privilege(h) \in {"user", "none"}
          THEN "privilege_escalation"
        ELSE "lateral_movement"

StateInit ==
    /\ hosts = EmptyDict
    /\ connectivity_matrix = {}
    /\ privilege_matrix = EmptyDict
    /\ credentials = EmptyDict
    /\ action_history = << >>
    /\ current_step = 0
    /\ current_host = None
    /\ goal_hosts = {}
    /\ compromised_goals = {}
    /\ since_scan = EmptyDict
    /\ edge_calls = {}

\* a reset that leaves the goal sets as they are
StateReset_GoalsKept ==
    /\ hosts' = EmptyDict
    /\ connectivity_matrix' = {}
    /\ privilege_matrix' = EmptyDict
    /\ credentials' = EmptyDict
    /\ action_history' = << >>
    /\ current_step' = 0
    /\ current_host' = None
    /\ since_scan' = EmptyDict
    /\ edge_calls' = {}
    /\ UNCHANGED << goal_hosts, compromised_goals >>

\* StateManager.reset
StateReset ==
    /\ hosts' = EmptyDict
    /\ connectivity_matrix' = {}
    /\ privilege_matrix' = EmptyDict
    /\ credentials' = EmptyDict
    /\ action_history' = << >>
    /\ current_step' = 0
    /\ current_host' = None
    /\ goal_hosts' = {}
    /\ compromised_goals' = {}
    /\ since_scan' = EmptyDict
    /\ edge_calls' = {}

\* StateManager.add_host(host_id, value=v): create if absent, else set the attribute
AddHost(h, v) ==
    /\ hosts' = IF h \in DOMAIN hosts
                  THEN [hosts EXCEPT ![h].value = v]
                  ELSE [ k \in (DOMAIN hosts) \cup {h} |->
                           IF k = h THEN HostState(v) ELSE hosts[k] ]
    /\ UNCHANGED << connectivity_matrix, privilege_matrix, credentials, action_history, since_scan, edge_calls,
                    current_step, current_host, goal_hosts, compromised_goals >>

\* StateManager.add_host(host_id, **kwargs): HostState(host_id, **kwargs) if
\* absent, else setattr of every keyword on the record that is there
AddHostKwargs(h, kwargs) ==
    /\ hosts' =
          LET merged(record) ==
                [ key \in DOMAIN record |->
                    IF key \in DOMAIN kwargs THEN kwargs[key] ELSE record[key] ]
          IN  IF h \in DOMAIN hosts
                THEN [hosts EXCEPT ![h] = merged(@)]
                ELSE [ k \in (DOMAIN hosts) \cup {h} |->
                         IF k = h THEN merged(HostState(0)) ELSE hosts[k] ]
    /\ UNCHANGED << connectivity_matrix, privilege_matrix, credentials, action_history,
                    since_scan, edge_calls, current_step, current_host, goal_hosts,
                    compromised_goals >>

\* StateManager.mark_discovered
MarkDiscovered(h) ==
    /\ hosts' = IF h \in DOMAIN hosts
                  THEN [hosts EXCEPT ![h].discovered = TRUE]
                  ELSE hosts
    /\ UNCHANGED << connectivity_matrix, privilege_matrix, credentials, action_history, since_scan, edge_calls,
                    current_step, current_host, goal_hosts, compromised_goals >>

\* a mark_owned that counts every owned host as a compromised goal
MarkOwned_AnyHostGoal(h, privilege) ==
    /\ IF h \in DOMAIN hosts
         THEN /\ hosts' = [hosts EXCEPT ![h].owned = TRUE,
                                        ![h].privilege_level = privilege]
              /\ privilege_matrix' =
                    [ k \in (DOMAIN privilege_matrix) \cup {h} |->
                        IF k = h THEN privilege ELSE privilege_matrix[k] ]
              /\ compromised_goals' = compromised_goals \cup {h}
         ELSE UNCHANGED << hosts, privilege_matrix, compromised_goals >>
    /\ UNCHANGED << connectivity_matrix, credentials, action_history, since_scan,
                    edge_calls, current_step, current_host, goal_hosts >>

\* StateManager.mark_owned
MarkOwned(h, privilege) ==
    /\ IF h \in DOMAIN hosts
         THEN /\ hosts' = [hosts EXCEPT ![h].owned = TRUE,
                                        ![h].privilege_level = privilege]
              /\ privilege_matrix' =
                    [ k \in (DOMAIN privilege_matrix) \cup {h} |->
                        IF k = h THEN privilege ELSE privilege_matrix[k] ]
              /\ compromised_goals' =
                    IF h \in goal_hosts THEN compromised_goals \cup {h}
                                        ELSE compromised_goals
         ELSE UNCHANGED << hosts, privilege_matrix, compromised_goals >>
    /\ UNCHANGED << connectivity_matrix, credentials, action_history, since_scan, edge_calls,
                    current_step, current_host, goal_hosts >>

\* StateManager.mark_scanned
MarkScanned(h) ==
    /\ hosts' = IF h \in DOMAIN hosts
                  THEN [hosts EXCEPT ![h].last_scan_time = current_step,
                                     ![h].scan_count = @ + 1]
                  ELSE hosts
    /\ since_scan' = IF h \in DOMAIN hosts
                       THEN [ k \in (DOMAIN since_scan) \cup {h} |->
                                IF k = h THEN 0 ELSE since_scan[k] ]
                       ELSE since_scan
    /\ UNCHANGED << connectivity_matrix, privilege_matrix, credentials, action_history, edge_calls,
                    current_step, current_host, goal_hosts, compromised_goals >>

\* `if x not in q: q.append(x)`
AppendNew(q, x) == IF x \in Range(q) THEN q ELSE Append(q, x)

\* the loop `for x in xs: if x not in q: q.append(x)`
RECURSIVE ExtendNew(_, _)
ExtendNew(q, xs) ==
    IF Len(xs) = 0 THEN q ELSE ExtendNew(AppendNew(q, Head(xs)), Tail(xs))

\* StateManager.add_service(host_id, service_name, vulnerabilities)
AddService(h, service_name, vulns) ==
    /\ hosts' =
          IF h \in DOMAIN hosts
            THEN [hosts EXCEPT ![h].services = AppendNew(@, service_name),
                               ![h].vulnerabilities = ExtendNew(@, vulns)]
            ELSE hosts
    /\ UNCHANGED << connectivity_matrix, privilege_matrix, credentials, action_history,
                    since_scan, edge_calls, current_step, current_host, goal_hosts,
                    compromised_goals >>

\* state.goal_hosts = G, the declaration of the episode's goal hosts
SetGoalHosts(G) ==
    /\ goal_hosts = {}
    /\ goal_hosts' = G
    /\ UNCHANGED << hosts, connectivity_matrix, privilege_matrix, credentials,
                    action_history, since_scan, edge_calls, current_step, current_host, compromised_goals >>

(***************************************************************************)
(* RewardMachine                                                           *)
(***************************************************************************)
MilestoneNames ==
    {"first_discovery", "first_compromise", "multi_compromise", "admin_privilege"}

\* the milestone each branch of _check_milestones records
MilestoneName(phase) ==
    CASE phase = "reconnaissance" -> "first_discovery"
      [] phase = "initial_access" -> "first_compromise"
      [] phase = "lateral_movement" -> "multi_compromise"
      [] phase = "privilege_escalation" -> "admin_privilege"
      [] OTHER -> None

\* the state condition each branch of _check_milestones tests
MilestoneCondition(phase) ==
    CASE phase = "reconnaissance" -> Cardinality(get_discovered_hosts) >= 1
      [] phase = "initial_access" -> Cardinality(get_owned_hosts) >= 1
      [] phase = "lateral_movement" -> Cardinality(get_owned_hosts) >= 2
      [] phase = "privilege_escalation" ->
            \E h \in get_owned_hosts : get_privilege(h) = "admin"
      [] OTHER -> FALSE

\* 'name' not in self.milestones[phase]
MilestoneNotRecordedAlways(name, recorded) == TRUE

MilestoneNotRecorded(name, recorded) == name \notin Range(recorded)

\* RewardMachine._check_milestones, on the tracked phase: the milestone lists
\* it leaves and the bonus it returns
check_milestones(phase, ms) ==
    IF /\ MilestoneCondition(phase)
       /\ MilestoneNotRecorded(MilestoneName(phase), ms[phase])
      THEN [ milestones |-> [ms EXCEPT ![phase] = Append(@, MilestoneName(phase))],
             bonus |-> milestone_reward ]
      ELSE [ milestones |-> ms, bonus |-> 0 ]

\* new_idx > current_idx
IsForwardProgressAnyChange(new_idx, current_idx) == TRUE

IsForwardProgress(new_idx, current_idx) == new_idx > current_idx

\* 'goal_achieved' not in self.milestones[GOAL_ACHIEVED]
GoalNotRecordedAlways(ms) == TRUE

GoalNotRecorded(ms) == "goal_achieved" \notin Range(ms["goal_achieved"])

RmInit ==
    /\ current_phase = "reconnaissance"
    /\ phase_history = << "reconnaissance" >>
    /\ milestones = [ p \in Phases |-> << >> ]
    /\ milestone_payments = [ m \in MilestoneNames |-> 0 ]

\* RewardMachine.reset
RmReset ==
    /\ current_phase' = "reconnaissance"
    /\ phase_history' = << "reconnaissance" >>
    /\ milestones' = [ p \in Phases |-> << >> ]
    /\ milestone_payments' = [ m \in MilestoneNames |-> 0 ]

\* RewardMachine.update(state_manager): the fields it leaves, its locals and
\* the value it returns
update ==
    LET derived == get_penetration_phase
        transition ==
            /\ derived # current_phase
            /\ IsForwardProgress(PhaseIndex(derived), PhaseIndex(current_phase))
        tracked == IF transition THEN derived ELSE current_phase
        checked == check_milestones(tracked, milestones)
        goal == derived = "goal_achieved" /\ GoalNotRecorded(checked.milestones)
    IN  [ current_phase |-> tracked,
          phase_history |->
              IF transition THEN Append(phase_history, derived) ELSE phase_history,
          milestones |->
              IF goal
                THEN [checked.milestones EXCEPT
                        !["goal_achieved"] = Append(@, "goal_achieved")]
                ELSE checked.milestones,
          milestone_payments |->
              IF checked.bonus > 0
                THEN [milestone_payments EXCEPT ![MilestoneName(tracked)] = @ + 1]
                ELSE milestone_payments,
          new_phase |-> derived,
          milestone_bonus |-> checked.bonus,
          goal_bonus |-> IF goal THEN goal_achievement_reward ELSE 0,
          bonus_reward |->
              (IF transition THEN phase_transition_reward ELSE 0)
              + checked.bonus
              + (IF goal THEN goal_achievement_reward ELSE 0) ]

\* a call reward_machine.update(state_manager)
RmUpdate ==
    LET u == update
    IN  /\ current_phase' = u.current_phase
        /\ phase_history' = u.phase_history
        /\ milestones' = u.milestones
        /\ milestone_payments' = u.milestone_payments
        /\ new_phase' = u.new_phase
        /\ milestone_bonus' = u.milestone_bonus
        /\ goal_bonus' = u.goal_bonus
        /\ bonus_reward' = u.bonus_reward

(***************************************************************************)
(* ManagerDecision and WorkerAgent                                         *)
(***************************************************************************)
\* SubGoal, in declaration order (list(SubGoal))
subgoal_order ==
    << "reconnaissance", "web_exploitation", "privilege_escalation", "pivoting" >>

SubGoals == { subgoal_order[i] : i \in 1..Len(subgoal_order) }

StopConditions ==
    { "hosts_discovered", "session_obtained", "privilege_escalated",
      "lateral_movement_success", "budget_exhausted" }

\* ManagerDecision(subgoal, target_host, budget, stop_condition); priority is the
\* constant 0.5 and is never read
ManagerDecision(subgoal, target_host, budget, stop_condition) ==
    [ subgoal |-> subgoal, target_host |-> target_host, budget |-> budget,
      stop_condition |-> stop_condition ]

\* ManagerAgent._get_stop_condition
get_stop_condition(subgoal) ==
    CASE subgoal = "reconnaissance" -> "hosts_discovered"
      [] subgoal = "web_exploitation" -> "session_obtained"
      [] subgoal = "privilege_escalation" -> "privilege_escalated"
      [] subgoal = "pivoting" -> "lateral_movement_success"
      [] OTHER -> "budget_exhausted"

\* None where a ManagerDecision is expected
NoDecision ==
    [ subgoal |-> None, target_host |-> None, budget |-> 0, stop_condition |-> None ]

\* the outcome dict handed to should_stop, read with feedback.get(key, default)
Feedback(owned, discovered, escalated, lateral) ==
    [ new_host_owned |-> owned, new_hosts_discovered |-> discovered,
      privilege_escalated |-> escalated, lateral_movement |-> lateral ]

NoFeedback == Feedback(FALSE, 0, FALSE, FALSE)

WorkerInit ==
    /\ current_task = NoDecision
    /\ budget_remaining = 0
    /\ actions_taken = 0
    /\ step_rewards = << >>
    /\ actions_success = << >>
    /\ feedback = NoFeedback
    /\ stop_result = << FALSE, None >>
    /\ cycle_actions = << >>

\* the worker's fields, as one value
Worker ==
    [ current_task |-> current_task, budget_remaining |-> budget_remaining,
      actions_taken |-> actions_taken, step_rewards |-> step_rewards,
      actions_success |-> actions_success ]

\* the worker's fields become w
SetWorker(w) ==
    /\ current_task' = w.current_task
    /\ budget_remaining' = w.budget_remaining
    /\ actions_taken' = w.actions_taken
    /\ step_rewards' = w.step_rewards
    /\ actions_success' = w.actions_success

\* a set_task that keeps the reward and success lists of the cycle before
set_task_ListsKept(decision) ==
    [ current_task |-> decision, budget_remaining |-> decision.budget,
      actions_taken |-> 0, step_rewards |-> step_rewards,
      actions_success |-> actions_success ]

\* WorkerAgent.set_task
set_task(decision) ==
    [ current_task |-> decision, budget_remaining |-> decision.budget,
      actions_taken |-> 0, step_rewards |-> << >>, actions_success |-> << >> ]

\* a record_action that stops decrementing the budget at zero
record_action_Floored(w, reward, success) ==
    [ w EXCEPT !.step_rewards = Append(@, reward),
               !.actions_success = Append(@, success),
               !.actions_taken = @ + 1,
               !.budget_remaining = IF @ > 0 THEN @ - 1 ELSE 0 ]

\* WorkerAgent.record_action
record_action(w, reward, success) ==
    [ w EXCEPT !.step_rewards = Append(@, reward),
               !.actions_success = Append(@, success),
               !.actions_taken = @ + 1,
               !.budget_remaining = @ - 1 ]

\* WorkerAgent.reset
worker_reset ==
    [ current_task |-> NoDecision, budget_remaining |-> 0, actions_taken |-> 0,
      step_rewards |-> << >>, actions_success |-> << >> ]

\* the stop-condition branches of should_stop: the tag whose outcome field is set
StopConditionMet(stop_condition, fb) ==
    \/ stop_condition = "session_obtained" /\ fb.new_host_owned
    \/ stop_condition = "hosts_discovered" /\ fb.new_hosts_discovered > 0
    \/ stop_condition = "privilege_escalated" /\ fb.privilege_escalated
    \/ stop_condition = "lateral_movement_success" /\ fb.lateral_movement

\* a should_stop that looks at the stop condition before the budget
should_stop_TagFirst(task, remaining, fb) ==
    IF task = NoDecision THEN << TRUE, "no_task" >>
    ELSE IF StopConditionMet(task.stop_condition, fb)
      THEN << TRUE, task.stop_condition >>
    ELSE IF remaining <= 0 THEN << TRUE, "budget_exhausted" >>
    ELSE << FALSE, "continue" >>

\* a should_stop that allows one action more than the budget
should_stop_BudgetLate(task, remaining, fb) ==
    IF task = NoDecision THEN << TRUE, "no_task" >>
    ELSE IF remaining < 0 THEN << TRUE, "budget_exhausted" >>
    ELSE IF StopConditionMet(task.stop_condition, fb)
      THEN << TRUE, task.stop_condition >>
    ELSE << FALSE, "continue" >>

\* WorkerAgent.should_stop
should_stop(task, remaining, fb) ==
    IF task = NoDecision THEN << TRUE, "no_task" >>
    ELSE IF remaining <= 0 THEN << TRUE, "budget_exhausted" >>
    ELSE IF StopConditionMet(task.stop_condition, fb)
      THEN << TRUE, task.stop_condition >>
    ELSE << FALSE, "continue" >>

\* a call worker.should_stop(fb)
ShouldStop(fb) ==
    /\ feedback' = fb
    /\ stop_result' = should_stop(current_task, budget_remaining, fb)
    /\ UNCHANGED << current_task, budget_remaining, actions_taken, step_rewards,
                    actions_success, cycle_actions >>

(***************************************************************************)
(* ManagerAgent                                                            *)
(***************************************************************************)
Min(a, b) == IF a < b THEN a ELSE b

Max(a, b) == IF a > b THEN a ELSE b

\* np.clip(x, lo, hi) = minimum(maximum(x, lo), hi)
Clip(x, lo, hi) == Min(Max(x, lo), hi)

NUM_SUBGOALS == Len(subgoal_order)

\* the value above which a target counts as high-value
high_value_threshold == 50

get_action_space_size == NUM_SUBGOALS * max_hosts

\* ManagerAgent.__init__(max_hosts, default_budget, budget_range)
ManagerInit(mh, db, br) ==
    /\ max_hosts = mh
    /\ default_budget = db
    /\ budget_range = br
    /\ current_decision = NoDecision
    /\ decision_history = << >>
    /\ subgoal_success_rates = [ sg \in SubGoals |-> << >> ]

\* web_exploitation without the `h not in owned` filter
TargetList_OwnedKept(subgoal) ==
    CASE subgoal = "reconnaissance" -> get_unexplored_hosts
      [] subgoal = "web_exploitation" -> get_discovered_hosts
      [] subgoal = "privilege_escalation" ->
            { h \in get_owned_hosts : get_privilege(h) \in {"user", "none"} }
      [] subgoal = "pivoting" ->
            (UNION { get_reachable_hosts(o) : o \in get_owned_hosts }) \ get_owned_hosts

\* the target list action_to_decision builds for the subgoal, as a set
TargetList(subgoal) ==
    CASE subgoal = "reconnaissance" -> get_unexplored_hosts
      [] subgoal = "web_exploitation" -> get_discovered_hosts \ get_owned_hosts
      [] subgoal = "privilege_escalation" ->
            { h \in get_owned_hosts : get_privilege(h) \in {"user", "none"} }
      [] subgoal = "pivoting" ->
            (UNION { get_reachable_hosts(o) : o \in get_owned_hosts }) \ get_owned_hosts

\* targets[target_idx] if the index is in range, else None.  The lists follow
\* dict insertion order (set order for pivoting), which the host table does not
\* keep: any member can stand at an index that is in range.
TargetChoices(subgoal, target_idx) ==
    IF target_idx < Cardinality(TargetList(subgoal))
      THEN TargetList(subgoal)
      ELSE { None }

\* ManagerAgent._compute_adaptive_budget
compute_adaptive_budget(subgoal, target) ==
    LET lo == budget_range[1]
        hi == budget_range[2]
        base ==
            CASE subgoal = "reconnaissance" -> Max(lo, default_budget - 2)
              [] subgoal = "web_exploitation" -> Min(hi, default_budget + 2)
              [] subgoal = "privilege_escalation" -> default_budget
              [] subgoal = "pivoting" -> Min(hi, default_budget + 1)
        bonus ==
            IF /\ target # None
               /\ target \in DOMAIN hosts
               /\ hosts[target].value > high_value_threshold
              THEN 1 ELSE 0
    IN  Clip(base + bonus, lo, hi)

\* the budget action_to_decision gives the decision
decision_budget(subgoal, target, adaptive_budget) ==
    IF adaptive_budget THEN compute_adaptive_budget(subgoal, target)
                       ELSE default_budget

\* the decisions action_to_decision(action, state_manager, adaptive_budget) can return
action_to_decision(action, adaptive_budget) ==
    LET subgoal_idx == action \div max_hosts
        target_idx == action % max_hosts
        subgoal == subgoal_order[(subgoal_idx % NUM_SUBGOALS) + 1]
    IN  { ManagerDecision(subgoal, t, decision_budget(subgoal, t, adaptive_budget),
                          get_stop_condition(subgoal)) :
            t \in TargetChoices(subgoal, target_idx) }

\* sum of a list of numbers
RECURSIVE SumSeq(_)
SumSeq(q) == IF q = << >> THEN 0 ELSE Head(q) + SumSeq(Tail(q))

\* sum of a list of booleans
CountTrue(q) == Cardinality({ i \in 1..Len(q) : q[i] })

\* WorkerAgent.check_subgoal_achieved: total_reward > 0 and success_rate > 0.5
check_subgoal_achieved(w) ==
    IF w.current_task = NoDecision THEN FALSE
    ELSE IF w.step_rewards # << >> /\ w.actions_success # << >>
      THEN /\ SumSeq(w.step_rewards) > 0
           /\ 2 * CountTrue(w.actions_success) > Len(w.actions_success)
    ELSE FALSE

\* no get_feedback dict: the call was not made
NoReport ==
    [ success_rate |-> << 0, 1 >>, actions_used |-> 0, reward |-> 0,
      subgoal_achieved |-> FALSE ]

\* WorkerAgent.get_feedback; success_rate is the fraction <<successes, actions>>
get_feedback(w) ==
    IF w.step_rewards = << >>
      THEN [ success_rate |-> << 0, 1 >>, actions_used |-> 0, reward |-> 0,
             subgoal_achieved |-> FALSE ]
      ELSE [ success_rate |-> << CountTrue(w.actions_success), Len(w.actions_success) >>,
             actions_used |-> w.actions_taken,
             reward |-> SumSeq(w.step_rewards),
             subgoal_achieved |-> check_subgoal_achieved(w) ]

\* a call worker.get_feedback()
GetFeedback ==
    /\ worker_feedback' = get_feedback(Worker)
    /\ UNCHANGED << current_task, budget_remaining, actions_taken, step_rewards,
                    actions_success, cycle_actions >>

\* ManagerAgent.record_worker_feedback: the success lists it leaves
record_worker_feedback(decision, rates, fb) ==
    IF decision = NoDecision THEN rates
    ELSE [ rates EXCEPT ![decision.subgoal] = Append(@, fb.subgoal_achieved) ]

(***************************************************************************)
(* StepRewardCalculator                                                    *)
(***************************************************************************)
\* StepRewardCalculator.__init__ defaults
host_compromise_reward == 10
credential_reward == 5
discovery_reward == 2
invalid_action_penalty == -5
cost_multiplier == 1

\* an action_result dict, read with action_result.get(key, default)
ActionResult(compromised, value, credential, services, discovered) ==
    [ host_compromised |-> compromised, host_value |-> value,
      credential_discovered |-> credential, services_discovered |-> services,
      hosts_discovered |-> discovered ]

\* no action_result dict: every key takes its default
NoResult == ActionResult(FALSE, 0, FALSE, 0, 0)

\* the reward with the clipping `reward = max(0, reward)` switched on
calculate_reward_Clipped(action_result, action_cost, action_valid) ==
    IF ~action_valid THEN invalid_action_penalty
    ELSE LET reward ==
               (0 - action_cost * cost_multiplier)
               + (IF action_result.host_compromised
                    THEN host_compromise_reward + action_result.host_value ELSE 0)
               + (IF action_result.credential_discovered THEN credential_reward ELSE 0)
               + (IF action_result.services_discovered > 0
                    THEN discovery_reward * action_result.services_discovered ELSE 0)
               + (IF action_result.hosts_discovered > 0
                    THEN discovery_reward * action_result.hosts_discovered ELSE 0)
         IN  IF reward < 0 THEN 0 ELSE reward

\* StepRewardCalculator.calculate_reward
calculate_reward(action_result, action_cost, action_valid) ==
    IF ~action_valid THEN invalid_action_penalty
    ELSE (0 - action_cost * cost_multiplier)
         + (IF action_result.host_compromised
              THEN host_compromise_reward + action_result.host_value ELSE 0)
         + (IF action_result.credential_discovered THEN credential_reward ELSE 0)
         + (IF action_result.services_discovered > 0
              THEN discovery_reward * action_result.services_discovered ELSE 0)
         + (IF action_result.hosts_discovered > 0
              THEN discovery_reward * action_result.hosts_discovered ELSE 0)

\* none of get_action_priorities, get_feedback and calculate_reward is the
\* call: their arguments and results are out of scope
NoQueryCall ==
    /\ last_priorities' = << >>
    /\ last_valid_mask' = << >>
    /\ worker_feedback' = NoReport
    /\ last_result' = NoResult
    /\ last_cost' = 0
    /\ last_valid' = TRUE
    /\ last_host' = None
    /\ explanation' = None

(***************************************************************************)
(* ActionMasker                                                            *)
(***************************************************************************)
\* one entry of action_metadata: a dict read with .get('type', ''),
\* .get('target'), .get('requires_cred', False) and .get('tool')
Action(type, target, requires_cred, tool) ==
    [ type |-> type, target |-> target, requires_cred |-> requires_cred,
      tool |-> tool ]

\* the check without the credential requirement of remote actions
check_action_preconditions_CredentialSkipped(action, cur) ==
    CASE action.type = "local" ->
            cur \in DOMAIN hosts /\ hosts[cur].owned
      [] action.type = "remote" ->
            IF action.target = None THEN FALSE
            ELSE IF ~can_reach(cur, action.target) THEN FALSE
            ELSE IF action.target \in DOMAIN hosts /\ hosts[action.target].owned
              THEN IF action.tool \in {"privesc", "escalate"}
                     THEN hosts[action.target].privilege_level \in {"user", "none"}
                     ELSE FALSE
            ELSE TRUE
      [] action.type = "connect" ->
            IF action.target = None THEN FALSE
            ELSE IF ~(action.target \in DOMAIN hosts /\ hosts[action.target].owned)
              THEN FALSE
            ELSE can_reach(cur, action.target)
      [] action.type \in {"discover", "scan", "probe"} -> TRUE
      [] OTHER -> TRUE

\* ActionMasker._check_action_preconditions
check_action_preconditions(action, cur) ==
    CASE action.type = "local" ->
            cur \in DOMAIN hosts /\ hosts[cur].owned
      [] action.type = "remote" ->
            IF action.target = None THEN FALSE
            ELSE IF ~can_reach(cur, action.target) THEN FALSE
            ELSE IF action.requires_cred /\ ~has_credential_for(action.target)
              THEN FALSE
            ELSE IF action.target \in DOMAIN hosts /\ hosts[action.target].owned
              THEN IF action.tool \in {"privesc", "escalate"}
                     THEN hosts[action.target].privilege_level \in {"user", "none"}
                     ELSE FALSE
            ELSE TRUE
      [] action.type = "connect" ->
            IF action.target = None THEN FALSE
            ELSE IF ~(action.target \in DOMAIN hosts /\ hosts[action.target].owned)
              THEN FALSE
            ELSE can_reach(cur, action.target)
      [] action.type \in {"discover", "scan", "probe"} -> TRUE
      [] OTHER -> TRUE

\* mask.sum()
MaskSum(m) == Cardinality({ i \in DOMAIN m : m[i] = 1 })

\* ActionMasker.get_valid_actions; mask[i] of the code is m[i + 1] here
get_valid_actions(action_space_size, metadata) ==
    IF current_host = None
      THEN [ i \in 1..action_space_size |->
               IF i <= Len(metadata) /\ metadata[i].type \in {"discover", "scan"}
                 THEN 1 ELSE 0 ]
      ELSE LET checked ==
                   [ i \in 1..action_space_size |->
                       IF /\ i <= Len(metadata)
                          /\ check_action_preconditions(metadata[i], current_host)
                         THEN 1 ELSE 0 ]
           IN  IF MaskSum(checked) = 0
                 THEN [ i \in 1..action_space_size |-> 1 ]
                 ELSE checked

\* a call masker.get_valid_actions(len(metadata), metadata)
GetValidActions(metadata) ==
    /\ action_metadata' = metadata
    /\ mask' = get_valid_actions(Len(metadata), metadata)
    /\ top_k' = 0
    /\ recommendations' = << >>
    /\ op' = "get_valid_actions"
    /\ new_phase' = None
    /\ bonus_reward' = 0
    /\ milestone_bonus' = 0
    /\ goal_bonus' = 0
    /\ last_action' = 0
    /\ last_adaptive' = FALSE
    /\ NoQueryCall

\* an explanation that looks at the credential before the reachability
explain_invalid_action_CredentialFirst(action, cur) ==
    CASE action.type = "local" ->
            IF ~(cur \in DOMAIN hosts /\ hosts[cur].owned)
              THEN << "Cannot execute local action: Host is not owned", cur >>
              ELSE << "Unknown reason" >>
      [] action.type = "remote" ->
            IF action.target = None
              THEN << "Remote action requires a target" >>
            ELSE IF action.requires_cred /\ ~has_credential_for(action.target)
              THEN << "Action requires credentials, but none available", action.target >>
            ELSE IF ~can_reach(cur, action.target)
              THEN << "Cannot reach", action.target, cur >>
            ELSE IF action.target \in DOMAIN hosts /\ hosts[action.target].owned
              THEN << "Target is already owned", action.target >>
            ELSE << "Unknown reason" >>
      [] action.type = "connect" ->
            IF action.target = None
              THEN << "Connect action requires a target" >>
            ELSE IF ~(action.target \in DOMAIN hosts /\ hosts[action.target].owned)
              THEN << "Cannot connect: not owned", action.target >>
            ELSE IF ~can_reach(cur, action.target)
              THEN << "No network path", cur, action.target >>
            ELSE << "Unknown reason" >>
      [] OTHER -> << "Unknown reason" >>

\* ActionMasker.explain_invalid_action: the message as the tuple of its fixed
\* text and the identities formatted into it
explain_invalid_action(action, cur) ==
    CASE action.type = "local" ->
            IF ~(cur \in DOMAIN hosts /\ hosts[cur].owned)
              THEN << "Cannot execute local action: Host is not owned", cur >>
              ELSE << "Unknown reason" >>
      [] action.type = "remote" ->
            IF action.target = None
              THEN << "Remote action requires a target" >>
            ELSE IF ~can_reach(cur, action.target)
              THEN << "Cannot reach", action.target, cur >>
            ELSE IF action.requires_cred /\ ~has_credential_for(action.target)
              THEN << "Action requires credentials, but none available", action.target >>
            ELSE IF action.target \in DOMAIN hosts /\ hosts[action.target].owned
              THEN << "Target is already owned", action.target >>
            ELSE << "Unknown reason" >>
      [] action.type = "connect" ->
            IF action.target = None
              THEN << "Connect action requires a target" >>
            ELSE IF ~(action.target \in DOMAIN hosts /\ hosts[action.target].owned)
              THEN << "Cannot connect: not owned", action.target >>
            ELSE IF ~can_reach(cur, action.target)
              THEN << "No network path", cur, action.target >>
            ELSE << "Unknown reason" >>
      [] OTHER -> << "Unknown reason" >>

\* a call masker.explain_invalid_action(action, cur)
ExplainInvalidAction(action, cur) ==
    /\ action_metadata' = << action >>
    /\ last_host' = cur
    /\ explanation' = explain_invalid_action(action, cur)
    /\ mask' = << >>
    /\ top_k' = 0
    /\ recommendations' = << >>
    /\ op' = "explain_invalid_action"
    /\ new_phase' = None
    /\ bonus_reward' = 0
    /\ milestone_bonus' = 0
    /\ goal_bonus' = 0
    /\ last_action' = 0
    /\ last_adaptive' = FALSE
    /\ last_priorities' = << >>
    /\ last_valid_mask' = << >>
    /\ worker_feedback' = NoReport
    /\ last_result' = NoResult
    /\ last_cost' = 0
    /\ last_valid' = TRUE

\* the priorities with the cooldown halving applied after the exploit bonus
get_action_priorities_PenaltyLast(metadata, valid_mask) ==
    [ i \in 1..Len(metadata) |->
        IF valid_mask[i] = 0 THEN 0
        ELSE
          LET action == metadata[i]
              target == action.target
              known == target # None /\ target \in DOMAIN hosts
              p1 == 1000 + (IF known THEN 6 * hosts[target].value ELSE 0)
              p2 == p1 + (IF known /\ ~hosts[target].owned THEN 400 ELSE 0)
              p3 == p2 + (IF /\ action.type = "remote"
                             /\ action.tool \in {"exploit", "metasploit"}
                            THEN 600 ELSE 0)
              p4 == IF target # None /\ ~can_scan(target) THEN p3 \div 2 ELSE p3
          IN  Min(p4, 2000) ]

\* ActionMasker.get_action_priorities.  A priority is kept as the whole number
\* of 1/2000ths it holds: 1000 is the base 0.5, a host adds 0.3 * value / 100
\* (6 per unit of value), an unowned target 0.2 (400), an exploit tool 0.3
\* (600), a target in scan cooldown halves the sum, and 2000 is the cap 1.0.
get_action_priorities(metadata, valid_mask) ==
    [ i \in 1..Len(metadata) |->
        IF valid_mask[i] = 0 THEN 0
        ELSE
          LET action == metadata[i]
              target == action.target
              known == target # None /\ target \in DOMAIN hosts
              p1 == 1000 + (IF known THEN 6 * hosts[target].value ELSE 0)
              p2 == p1 + (IF known /\ ~hosts[target].owned THEN 400 ELSE 0)
              p3 == IF target # None /\ ~can_scan(target) THEN p2 \div 2 ELSE p2
              p4 == p3 + (IF /\ action.type = "remote"
                             /\ action.tool \in {"exploit", "metasploit"}
                            THEN 600 ELSE 0)
          IN  Min(p4, 2000) ]

\* a call masker.get_action_priorities(metadata, valid_mask)
GetActionPriorities(metadata, valid_mask) ==
    /\ action_metadata' = metadata
    /\ last_valid_mask' = valid_mask
    /\ last_priorities' = get_action_priorities(metadata, valid_mask)
    /\ mask' = << >>
    /\ top_k' = 0
    /\ recommendations' = << >>
    /\ op' = "get_action_priorities"
    /\ new_phase' = None
    /\ bonus_reward' = 0
    /\ milestone_bonus' = 0
    /\ goal_bonus' = 0
    /\ last_action' = 0
    /\ last_adaptive' = FALSE
    /\ worker_feedback' = NoReport
    /\ last_result' = NoResult
    /\ last_cost' = 0
    /\ last_valid' = TRUE
    /\ last_host' = None
    /\ explanation' = None

\* one entry (action_id, action_data, priority_score) of the recommendations;
\* action_id counts from 1 here, action_data is metadata[action_id]
Recommendation(action_id, priority) ==
    [ action_id |-> action_id, priority |-> priority ]

\* an entry put ahead of the entries of equal priority
InsertBeforeEqual(sorted, x) ==
    LET c == Cardinality({ j \in 1..Len(sorted) : sorted[j].priority > x.priority })
    IN  SubSeq(sorted, 1, c) \o << x >> \o SubSeq(sorted, c + 1, Len(sorted))

\* list.sort(key=priority, reverse=True) is stable: an entry goes behind the
\* entries of greater or equal priority that stand before it in the list
InsertStable(sorted, x) ==
    LET c == Cardinality({ j \in 1..Len(sorted) : sorted[j].priority >= x.priority })
    IN  SubSeq(sorted, 1, c) \o << x >> \o SubSeq(sorted, c + 1, Len(sorted))

RECURSIVE SortByPriority(_)
SortByPriority(q) ==
    IF Len(q) = 0 THEN << >>
    ELSE InsertStable(SortByPriority(SubSeq(q, 1, Len(q) - 1)), q[Len(q)])

\* the entries of q whose action is valid in valid_mask, in the order of q
RECURSIVE ValidEntries(_, _)
ValidEntries(q, valid_mask) ==
    IF Len(q) = 0 THEN << >>
    ELSE LET rest == ValidEntries(SubSeq(q, 1, Len(q) - 1), valid_mask)
         IN  IF valid_mask[q[Len(q)].action_id] > 0
               THEN Append(rest, q[Len(q)]) ELSE rest

\* ActionMasker.get_recommended_actions
get_recommended_actions(metadata, k) ==
    LET valid_mask == get_valid_actions(Len(metadata), metadata)
        priorities == get_action_priorities(metadata, valid_mask)
        all == [ i \in 1..Len(metadata) |-> Recommendation(i, priorities[i]) ]
        sorted == SortByPriority(ValidEntries(all, valid_mask))
    IN  SubSeq(sorted, 1, Min(k, Len(sorted)))

\* a call masker.get_recommended_actions(metadata, top_k=k)
GetRecommendedActions(metadata, k) ==
    /\ action_metadata' = metadata
    /\ mask' = get_valid_actions(Len(metadata), metadata)
    /\ top_k' = k
    /\ recommendations' = get_recommended_actions(metadata, k)
    /\ op' = "get_recommended_actions"
    /\ new_phase' = None
    /\ bonus_reward' = 0
    /\ milestone_bonus' = 0
    /\ goal_bonus' = 0
    /\ last_action' = 0
    /\ last_adaptive' = FALSE
    /\ NoQueryCall

(***************************************************************************)
(* Spec: one episode state and one reward machine, driven by any sequence  *)
(* of state mutations, update calls and resets.                            *)
(***************************************************************************)
CallInit ==
    /\ op = "init"
    /\ new_phase = None
    /\ bonus_reward = 0
    /\ milestone_bonus = 0
    /\ goal_bonus = 0
    /\ action_metadata = << >>
    /\ mask = << >>
    /\ top_k = 0
    /\ recommendations = << >>
    /\ last_action = 0
    /\ last_adaptive = FALSE
    /\ last_priorities = << >>
    /\ last_valid_mask = << >>
    /\ worker_feedback = NoReport
    /\ last_result = NoResult
    /\ last_cost = 0
    /\ last_valid = TRUE
    /\ last_host = None
    /\ explanation = None

\* the info dict of the mock environment's step
Info(compromised, services) ==
    [ host_compromised |-> compromised, services_discovered |-> services ]

NoInfo == Info(FALSE, 0)

\* ManagerAgent(): max_hosts=10, default_budget=6, budget_range=(3, 10)
DefaultManagerInit == ManagerInit(10, 6, << 3, 10 >>)

\* the training script has not started
LoopIdle ==
    /\ pc = "idle"
    /\ episode_length = 0
    /\ done = FALSE
    /\ manager_steps = 0
    /\ info = NoInfo
    /\ step_reward = 0

Init ==
    /\ StateInit
    /\ RmInit
    /\ WorkerInit
    /\ DefaultManagerInit
    /\ LoopIdle
    /\ CallInit

\* the call `name`, which is no update: the locals of update are out of scope
\* get_valid_actions is not the call: its argument and result are out of scope
NoMaskCall ==
    /\ action_metadata' = << >>
    /\ mask' = << >>
    /\ top_k' = 0
    /\ recommendations' = << >>

\* action_to_decision is not the call: its arguments are out of scope
NoDecisionCall ==
    /\ last_action' = 0
    /\ last_adaptive' = FALSE

Call(name) ==
    /\ op' = name
    /\ new_phase' = None
    /\ bonus_reward' = 0
    /\ milestone_bonus' = 0
    /\ goal_bonus' = 0
    /\ NoMaskCall
    /\ NoDecisionCall
    /\ NoQueryCall

Next ==
    \/ /\ \E h \in HostIds : AddHost(h, 0)
       /\ Call("add_host")
       /\ UNCHANGED << rmVars, workerVars, managerVars, loopVars >>
    \/ /\ \E h \in HostIds : MarkDiscovered(h)
       /\ Call("mark_discovered")
       /\ UNCHANGED << rmVars, workerVars, managerVars, loopVars >>
    \/ /\ \E h \in HostIds, p \in Privileges : MarkOwned(h, p)
       /\ Call("mark_owned")
       /\ UNCHANGED << rmVars, workerVars, managerVars, loopVars >>
    \/ /\ \E G \in (SUBSET HostIds) \ {{}} : SetGoalHosts(G)
       /\ Call("set_goal_hosts")
       /\ UNCHANGED << rmVars, workerVars, managerVars, loopVars >>
    \/ /\ StateReset
       /\ Call("state_reset")
       /\ UNCHANGED << rmVars, workerVars, managerVars, loopVars >>
    \/ /\ RmReset
       /\ Call("rm_reset")
       /\ UNCHANGED << stateVars, workerVars, managerVars, loopVars >>
    \/ /\ RmUpdate
       /\ op' = "update"
       /\ NoMaskCall
       /\ NoDecisionCall
       /\ NoQueryCall
       /\ UNCHANGED << stateVars, workerVars, managerVars, loopVars >>

Spec == Init /\ [][Next]_vars

(***************************************************************************)
(* SpecWorker: one WorkerAgent driven through its interface by any         *)
(* sequence of set_task, record_action, should_stop and reset calls.       *)
(***************************************************************************)
MaxBudget == 2

MaxRecorded == 3

WorkerRewards == {-1, 2}

Feedbacks ==
    { Feedback(o, d, e, l) : o \in BOOLEAN, d \in {0, 1}, e \in BOOLEAN, l \in BOOLEAN }

InitWorker ==
    /\ StateInit
    /\ RmInit
    /\ WorkerInit
    /\ DefaultManagerInit
    /\ LoopIdle
    /\ CallInit

\* the decisions handed to set_task: those a manager builds, and one built
\* directly with the budget_exhausted tag
WorkerTasks ==
    { ManagerDecision(sg, None, b, get_stop_condition(sg)) :
        sg \in SubGoals, b \in 0..MaxBudget }
    \cup { ManagerDecision("pivoting", None, b, "budget_exhausted") : b \in 0..MaxBudget }

\* should_stop was not the last call: its argument and result are out of scope
NoStopCall ==
    /\ feedback' = NoFeedback
    /\ stop_result' = << FALSE, None >>

NextWorker ==
    \/ /\ \E d \in WorkerTasks : SetWorker(set_task(d))
       /\ cycle_actions' = << >>
       /\ Call("set_task")
       /\ NoStopCall
       /\ UNCHANGED << stateVars, rmVars, managerVars, loopVars >>
    \/ /\ actions_taken < MaxRecorded
       /\ \E r \in WorkerRewards, ok \in BOOLEAN :
             /\ SetWorker(record_action(Worker, r, ok))
             /\ cycle_actions' = Append(cycle_actions, << r, ok >>)
       /\ Call("record_action")
       /\ NoStopCall
       /\ UNCHANGED << stateVars, rmVars, managerVars, loopVars >>
    \/ /\ \E fb \in Feedbacks : ShouldStop(fb)
       /\ Call("should_stop")
       /\ UNCHANGED << stateVars, rmVars, managerVars, loopVars >>
    \/ /\ SetWorker(worker_reset)
       /\ cycle_actions' = << >>
       /\ Call("worker_reset")
       /\ NoStopCall
       /\ UNCHANGED << stateVars, rmVars, managerVars, loopVars >>
    \/ /\ GetFeedback
       /\ op' = "get_feedback"
       /\ NoStopCall
       /\ NoMaskCall
       /\ NoDecisionCall
       /\ UNCHANGED << callVars, last_priorities, last_valid_mask, last_result,
                       last_cost, last_valid, last_host, explanation >>
       /\ UNCHANGED << stateVars, rmVars, managerVars, loopVars >>

SpecWorker == InitWorker /\ [][NextWorker]_vars

\* C7: with a task set, should_stop answers (True, budget_exhausted) whenever no
\* budget remains, whatever the outcome holds; with budget left it answers
\* (True, tag) exactly when the outcome field of the task's own tag is set, and
\* (False, continue) otherwise.
C7_StopBudgetBeforeTag ==
    (op = "should_stop" /\ current_task # NoDecision) =>
        LET tag == current_task.stop_condition
            field_set ==
                CASE tag = "session_obtained" -> feedback.new_host_owned
                  [] tag = "hosts_discovered" -> feedback.new_hosts_discovered > 0
                  [] tag = "privilege_escalated" -> feedback.privilege_escalated
                  [] tag = "lateral_movement_success" -> feedback.lateral_movement
                  [] OTHER -> FALSE
        IN  /\ budget_remaining <= 0 => stop_result = << TRUE, "budget_exhausted" >>
            /\ (budget_remaining > 0 /\ field_set) => stop_result = << TRUE, tag >>
            /\ (budget_remaining > 0 /\ ~field_set) => stop_result = << FALSE, "continue" >>

\* should_stop has just been asked with no budget left and the field of the
\* task's tag set
C7_Witness ==
    /\ op = "should_stop"
    /\ current_task # NoDecision
    /\ current_task.stop_condition = "session_obtained"
    /\ feedback.new_host_owned
    /\ actions_taken > 0
    /\ budget_remaining <= 0
    /\ stop_result = << TRUE, "budget_exhausted" >>

\* C22: with a task set, get_feedback reports over exactly the actions recorded
\* since the last set_task: success_rate = successes / actions, actions_used =
\* their number, reward = the sum of their rewards, subgoal_achieved = (sum > 0
\* and success_rate > 0.5); with none recorded it reports 0, 0, 0 and false.
C22_FeedbackOverCycle ==
    (op = "get_feedback" /\ current_task # NoDecision) =>
        LET n == Len(cycle_actions)
            successes == Cardinality({ i \in 1..n : cycle_actions[i][2] })
            total == SumSeq([ i \in 1..n |-> cycle_actions[i][1] ])
        IN  IF n = 0
              THEN /\ worker_feedback.success_rate[1] = 0
                   /\ worker_feedback.actions_used = 0
                   /\ worker_feedback.reward = 0
                   /\ ~worker_feedback.subgoal_achieved
              ELSE /\ worker_feedback.success_rate = << successes, n >>
                   /\ worker_feedback.actions_used = n
                   /\ worker_feedback.reward = total
                   /\ worker_feedback.subgoal_achieved <=>
                         (total > 0 /\ 2 * successes > n)

\* feedback on a cycle of two actions, one of them failed, with positive sum
C22_Witness ==
    /\ op = "get_feedback"
    /\ current_task # NoDecision
    /\ worker_feedback.actions_used = 2
    /\ worker_feedback.success_rate = << 1, 2 >>
    /\ worker_feedback.reward = 1
    /\ ~worker_feedback.subgoal_achieved

\* C34: once a task d is set, through any number of record_action calls,
\* budget_remaining + actions_taken = d.budget and actions_taken is the length
\* of the reward list and of the success list; should_stop and get_feedback
\* change none of these fields.
C34_BudgetAccounting ==
    /\ [](current_task # NoDecision =>
            /\ budget_remaining + actions_taken = current_task.budget
            /\ actions_taken = Len(step_rewards)
            /\ actions_taken = Len(actions_success))
    /\ [][ op' \in {"should_stop", "get_feedback"} =>
             UNCHANGED << current_task, budget_remaining, actions_taken,
                          step_rewards, actions_success >> ]_vars

\* should_stop was asked after three recorded actions on a budget of two
C34_Witness ==
    /\ op = "should_stop"
    /\ current_task # NoDecision
    /\ current_task.budget = 2
    /\ actions_taken = 3
    /\ budget_remaining = -1

\* C35: for a task with budget b >= 1 and record_action called once per
\* action, should_stop answers true once b actions are recorded, whatever the
\* outcomes; before that it answers false when the outcome does not set the
\* field of the task's stop-condition tag.  So a cycle ends after at most b
\* actions, and after exactly b when no outcome matches the tag.
C35_CycleTerminates ==
    (/\ op = "should_stop"
     /\ current_task # NoDecision
     /\ current_task.budget >= 1) =>
        LET tag == current_task.stop_condition
            matches ==
                \/ tag = "session_obtained" /\ feedback.new_host_owned
                \/ tag = "hosts_discovered" /\ feedback.new_hosts_discovered > 0
                \/ tag = "privilege_escalated" /\ feedback.privilege_escalated
                \/ tag = "lateral_movement_success" /\ feedback.lateral_movement
        IN  /\ Len(cycle_actions) >= current_task.budget => stop_result[1]
            /\ (Len(cycle_actions) < current_task.budget /\ ~matches) =>
                  ~stop_result[1]
            /\ (Len(cycle_actions) < current_task.budget /\ matches) =>
                  stop_result = << TRUE, tag >>

\* should_stop answered true after exactly as many actions as the budget of
\* two, on an outcome that sets no field
C35_Witness ==
    /\ op = "should_stop"
    /\ current_task # NoDecision
    /\ current_task.budget = 2
    /\ Len(cycle_actions) = 2
    /\ feedback = Feedback(FALSE, 0, FALSE, FALSE)
    /\ stop_result = << TRUE, "budget_exhausted" >>

(***************************************************************************)
(* SpecLoop: the training loop of train_auvap for one episode, with the    *)
(* default arguments and the mock environment.                             *)
(***************************************************************************)
\* --manager-frequency default
manager_frequency == 10

\* --max-steps
MaxSteps == 12

\* what one env.step of the mock environment can report
EnvInfos == { Info(FALSE, 0), Info(TRUE, 1) }

\* should_stop(info) reads new_host_owned, new_hosts_discovered,
\* privilege_escalated and lateral_movement, none of which the info dict holds
InfoFeedback(i) == NoFeedback

InitLoop ==
    /\ StateInit
    /\ RmInit
    /\ WorkerInit
    /\ DefaultManagerInit
    /\ pc = "start"
    /\ episode_length = 0
    /\ done = FALSE
    /\ manager_steps = 0
    /\ info = NoInfo
    /\ step_reward = 0
    /\ CallInit

\* the head of the episode loop: env.reset(), state_manager.reset(),
\* reward_machine.reset() and the counters
EpisodeStart ==
    /\ pc = "start"
    /\ StateReset
    /\ RmReset
    /\ pc' = "loop"
    /\ episode_length' = 0
    /\ done' = FALSE
    /\ manager_steps' = 0
    /\ Call("episode_start")
    /\ UNCHANGED << info, step_reward, workerVars, managerVars >>

\* one pass through the body of `while not done and episode_length < max_steps`
LoopIteration ==
    /\ pc = "loop"
    /\ ~done
    /\ episode_length < MaxSteps
    /\ LET decide == episode_length % manager_frequency = 0
           decisions ==
               IF decide
                 THEN UNION { action_to_decision(a, TRUE) :
                                a \in 0..(get_action_space_size - 1) }
                 ELSE { current_decision }
       IN  \E d \in decisions, i \in EnvInfos, dn \in BOOLEAN :
              LET w1 == IF decide THEN set_task(d) ELSE Worker
                  sr == calculate_reward(
                            ActionResult(i.host_compromised, 0, FALSE,
                                         i.services_discovered, 0), 1, TRUE)
                  rm_bonus == update.bonus_reward
                  w2 == record_action(w1, sr + rm_bonus, sr > 0)
                  stop == should_stop(w2.current_task, w2.budget_remaining,
                                      InfoFeedback(i))
              IN  /\ current_decision' = d
                  /\ decision_history' =
                        IF decide THEN Append(decision_history, d) ELSE decision_history
                  /\ manager_steps' = IF decide THEN manager_steps + 1 ELSE manager_steps
                  /\ info' = i
                  /\ done' = dn
                  /\ step_reward' = sr
                  /\ RmUpdate
                  /\ SetWorker(w2)
                  /\ cycle_actions' =
                        Append(IF decide THEN << >> ELSE cycle_actions,
                               << sr + rm_bonus, sr > 0 >>)
                  /\ episode_length' = episode_length + 1
                  /\ feedback' = InfoFeedback(i)
                  /\ stop_result' = stop
                  /\ subgoal_success_rates' =
                        IF stop[1]
                          THEN record_worker_feedback(d, subgoal_success_rates,
                                                      get_feedback(w2))
                          ELSE subgoal_success_rates
    /\ op' = "step"
    /\ NoMaskCall
    /\ NoDecisionCall
    /\ NoQueryCall
    /\ UNCHANGED << pc, stateVars, max_hosts, default_budget, budget_range >>

\* the loop condition fails: the episode is complete
EpisodeEnd ==
    /\ pc = "loop"
    /\ done \/ episode_length >= MaxSteps
    /\ pc' = "finished"
    /\ Call("episode_end")
    /\ UNCHANGED << episode_length, done, manager_steps, info, step_reward,
                    stateVars, rmVars, workerVars, managerVars >>

NextLoop ==
    \/ EpisodeStart
    \/ LoopIteration
    \/ EpisodeEnd

SpecLoop == InitLoop /\ [][NextLoop]_vars

\* the feedback records the manager holds, over all subgoals
ReportsRecorded ==
    SumSeq([ i \in 1..Len(subgoal_order) |->
                Len(subgoal_success_rates[subgoal_order[i]]) ])

\* C6: while a decision is the worker's task, the worker has recorded no more
\* actions than the decision's budget and the remaining budget is not negative.
C6_BudgetNeverExceeded ==
    current_task # NoDecision =>
        /\ actions_taken <= current_task.budget
        /\ budget_remaining >= 0

\* C8: the manager holds at most one feedback record for every decision it has
\* made (a decision cycle reports once, and the next action belongs to a new
\* decision).
C8_OneReportPerDecision ==
    ReportsRecorded <= Len(decision_history)

\* C9: when the step's outcome reports a host compromise, the episode state the
\* reward machine has just read holds an owned host.
C9_OutcomeAppliedBeforeRewards ==
    (op = "step" /\ info.host_compromised) => get_owned_hosts # {}

(***************************************************************************)
(* SpecManager: one ManagerAgent, built with any of the configurations its *)
(* constructor accepts, deciding over an episode state that changes.       *)
(***************************************************************************)
\* decisions made in one run
MaxDecisions == 1

\* ManagerAgent(max_hosts, default_budget, budget_range) arguments
ManagerConfigs ==
    { << 2, 6, << 3, 10 >> >>, << 2, 4, << 3, 10 >> >>, << 2, 6, << 2, 4 >> >>,
      << 2, 6, << 10, 3 >> >> }

\* record_action calls on the state manager in one run
MaxStep == 5

\* add_host(host_id, value=...) calls: h1 is a low-value host, h2 a high-value one
HostValues == { << "h1", 10 >>, << "h2", 100 >> }

InitManager ==
    /\ StateInit
    /\ RmInit
    /\ WorkerInit
    /\ \E c \in ManagerConfigs : ManagerInit(c[1], c[2], c[3])
    /\ LoopIdle
    /\ CallInit

\* a call manager.action_to_decision(action, state_manager, adaptive_budget)
ActionToDecision(action, adaptive_budget) ==
    /\ \E d \in action_to_decision(action, adaptive_budget) :
          /\ current_decision' = d
          /\ decision_history' = Append(decision_history, d)
    /\ last_action' = action
    /\ last_adaptive' = adaptive_budget
    /\ UNCHANGED << max_hosts, default_budget, budget_range, subgoal_success_rates >>

\* op tells the manager's call from the calls that change the episode state
NextManager ==
    \/ /\ \E hv \in HostValues : AddHost(hv[1], hv[2])
       /\ Call("state_manager")
       /\ UNCHANGED << rmVars, workerVars, managerVars, loopVars >>
    \/ /\ \E h \in HostIds : MarkDiscovered(h)
       /\ Call("state_manager")
       /\ UNCHANGED << rmVars, workerVars, managerVars, loopVars >>
    \/ /\ \E h \in HostIds, p \in {"user", "admin"} : MarkOwned(h, p)
       /\ Call("state_manager")
       /\ UNCHANGED << rmVars, workerVars, managerVars, loopVars >>
    \/ /\ AddConnection("h1", "h2")
       /\ Call("state_manager")
       /\ UNCHANGED << rmVars, workerVars, managerVars, loopVars >>
    \/ /\ current_step < MaxStep
       /\ RecordAction(ActionRecord(0, "scan", None, TRUE))
       /\ Call("state_manager")
       /\ UNCHANGED << rmVars, workerVars, managerVars, loopVars >>
    \/ /\ Len(decision_history) < MaxDecisions
       /\ \E a \in 0..(get_action_space_size - 1), ab \in BOOLEAN :
             ActionToDecision(a, ab)
       /\ op' = "action_to_decision"
       /\ new_phase' = None
       /\ bonus_reward' = 0
       /\ milestone_bonus' = 0
       /\ goal_bonus' = 0
       /\ NoMaskCall
       /\ NoQueryCall
       /\ UNCHANGED << stateVars, rmVars, workerVars, loopVars >>

SpecManager == InitManager /\ [][NextManager]_vars

\* C10: the budget of every decision the manager makes lies in the configured
\* range, min <= budget <= max.
C10_BudgetWithinRange ==
    current_decision # NoDecision =>
        /\ budget_range[1] <= current_decision.budget
        /\ current_decision.budget <= budget_range[2]

\* C11: with min <= max, the adaptive budget is
\* clamp(default + adjustment(subgoal) + bonus, min, max): adjustment -2 for
\* reconnaissance, +2 for web_exploitation, +1 for pivoting, 0 for
\* privilege_escalation; bonus 1 iff the chosen target's value exceeds 50.
C11_AdaptiveBudgetFormula ==
    (op = "action_to_decision" /\ last_adaptive /\ budget_range[1] <= budget_range[2]) =>
        LET d == current_decision
            adjustment ==
                CASE d.subgoal = "reconnaissance" -> -2
                  [] d.subgoal = "web_exploitation" -> 2
                  [] d.subgoal = "pivoting" -> 1
                  [] d.subgoal = "privilege_escalation" -> 0
            bonus ==
                IF /\ d.target_host \in DOMAIN hosts
                   /\ hosts[d.target_host].value > 50
                  THEN 1 ELSE 0
            unclamped == default_budget + adjustment + bonus
        IN  d.budget = Max(budget_range[1], Min(budget_range[2], unclamped))

\* C12: no manager exists whose budget range has min > max, so no decision
\* comes from such a configuration.
C12_MinAboveMaxRejected ==
    /\ budget_range[1] <= budget_range[2]
    /\ current_decision # NoDecision => budget_range[1] <= budget_range[2]

MaxActions == 1

\* the kinds of entry the masker tells apart; remote and connect entries aim
\* at h2
ActionDescriptors ==
    { Action("local", None, FALSE, None),
      Action("discover", None, FALSE, None),
      Action("scan", None, FALSE, None),
      Action("probe", None, FALSE, None),
      Action("exploit", None, FALSE, None),
      Action("remote", None, FALSE, None),
      Action("remote", "h2", FALSE, None),
      Action("remote", "h2", TRUE, None),
      Action("remote", "h2", FALSE, "privesc"),
      Action("connect", "h2", FALSE, None) }

ActionLists == UNION { [ 1..n -> ActionDescriptors ] : n \in 0..MaxActions }

NextMask ==
    \/ /\ \E h \in HostIds : AddHost(h, 0)
       /\ Call("add_host")
       /\ UNCHANGED << rmVars, workerVars, managerVars, loopVars >>
    \/ /\ \E h \in HostIds, p \in {"user", "admin"} : MarkOwned(h, p)
       /\ Call("mark_owned")
       /\ UNCHANGED << rmVars, workerVars, managerVars, loopVars >>
    \/ /\ \E src \in HostIds : \E dst \in HostIds \ {src} : AddConnection(src, dst)
       /\ Call("add_connection")
       /\ UNCHANGED << rmVars, workerVars, managerVars, loopVars >>
    \/ /\ \E h \in HostIds : AddCredential("c1", "password", {h})
       /\ Call("add_credential")
       /\ UNCHANGED << rmVars, workerVars, managerVars, loopVars >>
    \/ /\ \E h \in HostIds : SetCurrentHost(h)
       /\ Call("set_current_host")
       /\ UNCHANGED << rmVars, workerVars, managerVars, loopVars >>
    \/ /\ \E metadata \in ActionLists : GetValidActions(metadata)
       /\ UNCHANGED << stateVars, rmVars, workerVars, managerVars, loopVars >>

SpecMask == Init /\ [][NextMask]_vars

\* C3: for a non-empty action list the mask get_valid_actions returns has an
\* entry equal to 1, and it is all ones when no action passes its precondition.
C3_MaskNeverAllZero ==
    (op = "get_valid_actions" /\ Len(action_metadata) > 0) =>
        /\ \E i \in 1..Len(mask) : mask[i] = 1
        /\ (\A i \in 1..Len(action_metadata) :
                ~check_action_preconditions(action_metadata[i], current_host))
             => \A i \in 1..Len(mask) : mask[i] = 1

\* C18: a remote action passes the precondition check exactly when its target
\* is reachable from the current host, it needs no credential or a credential's
\* scope holds the target, and the target is not owned or the tool is an
\* escalation tool and the owned target's privilege is user or none.
C18_RemotePrecondition ==
    (op = "get_valid_actions" /\ current_host # None) =>
        \A i \in 1..Len(action_metadata) :
            LET a == action_metadata[i]
                reachable == << current_host, a.target >> \in connectivity_matrix
                covered == \E c \in DOMAIN credentials : a.target \in credentials[c].scope
                owned == a.target \in DOMAIN hosts /\ hosts[a.target].owned
                escalation ==
                    /\ a.tool \in {"privesc", "escalate"}
                    /\ hosts[a.target].privilege_level \in {"user", "none"}
            IN  a.type = "remote" =>
                  (check_action_preconditions(a, current_host) <=>
                     /\ reachable
                     /\ ~a.requires_cred \/ covered
                     /\ ~owned \/ escalation)

\* a remote action that needs a credential was checked with its target in
\* reach and no credential for it
C18_Witness ==
    /\ op = "get_valid_actions"
    /\ current_host # None
    /\ \E i \in 1..Len(action_metadata) :
          /\ action_metadata[i].type = "remote"
          /\ action_metadata[i].requires_cred
          /\ << current_host, action_metadata[i].target >> \in connectivity_matrix
          /\ ~has_credential_for(action_metadata[i].target)

\* C19: when some action of the list passes its precondition, the mask holds 1
\* for a local action exactly if the current host exists and is owned, for a
\* connect action exactly if its target is owned and reachable from the
\* current host, and for every discover, scan, probe and unrecognized action.
C19_MaskByKind ==
    (/\ op = "get_valid_actions"
     /\ \E i \in 1..Len(action_metadata) :
           check_action_preconditions(action_metadata[i], current_host)) =>
        \A i \in 1..Len(action_metadata) :
            LET a == action_metadata[i]
            IN  CASE a.type = "local" ->
                       (mask[i] = 1 <=>
                          current_host \in DOMAIN hosts /\ hosts[current_host].owned)
                  [] a.type = "connect" ->
                       (mask[i] = 1 <=>
                          /\ a.target \in DOMAIN hosts
                          /\ hosts[a.target].owned
                          /\ << current_host, a.target >> \in connectivity_matrix)
                  [] a.type = "remote" -> TRUE
                  [] OTHER -> mask[i] = 1

\* C20: a remote or connect action whose target is not in the host table does
\* not pass the precondition check, also when a connectivity edge from the
\* current host to the target exists.
C20_UnknownTargetInvalid ==
    op = "get_valid_actions" =>
        \A i \in 1..Len(action_metadata) :
            LET a == action_metadata[i]
            IN  (a.type \in {"remote", "connect"} /\ a.target \notin DOMAIN hosts) =>
                    ~check_action_preconditions(a, current_host)

(***************************************************************************)
(* SpecExplain: one ActionMasker asked to explain single actions, from    *)
(* either host, while hosts, one edge and one credential come and          *)
(* ownership changes.                                                      *)
(***************************************************************************)
NextExplain ==
    \/ /\ \E h \in HostIds : AddHost(h, 0)
       /\ Call("add_host")
       /\ UNCHANGED << rmVars, workerVars, managerVars, loopVars >>
    \/ /\ \E h \in HostIds, p \in {"user", "admin"} : MarkOwned(h, p)
       /\ Call("mark_owned")
       /\ UNCHANGED << rmVars, workerVars, managerVars, loopVars >>
    \/ /\ AddConnection("h1", "h2")
       /\ Call("add_connection")
       /\ UNCHANGED << rmVars, workerVars, managerVars, loopVars >>
    \/ /\ AddCredential("c1", "password", {"h2"})
       /\ Call("add_credential")
       /\ UNCHANGED << rmVars, workerVars, managerVars, loopVars >>
    \/ /\ \E action \in ActionDescriptors, cur \in HostIds :
             ExplainInvalidAction(action, cur)
       /\ UNCHANGED << stateVars, rmVars, workerVars, managerVars, loopVars >>

SpecExplain == Init /\ [][NextExplain]_vars

\* C31: for a local, remote or connect action that fails its precondition,
\* explain_invalid_action returns one reason, that of the first check that
\* fails in this order: local: current host not owned; remote: no target,
\* target unreachable, required credential missing, target owned; connect: no
\* target, target not owned, target unreachable.  The reason depends on the
\* action, the current host and the episode state only.
C31_FirstFailingReason ==
    (/\ op = "explain_invalid_action"
     /\ action_metadata[1].type \in {"local", "remote", "connect"}
     /\ ~check_action_preconditions(action_metadata[1], last_host)) =>
        LET a == action_metadata[1]
            t == a.target
            owned(h) == h \in DOMAIN hosts /\ hosts[h].owned
            reachable == << last_host, t >> \in connectivity_matrix
            covered == \E c \in DOMAIN credentials : t \in credentials[c].scope
            reason == explanation[1]
        IN  /\ reason # "Unknown reason"
            /\ a.type = "local" =>
                  reason = "Cannot execute local action: Host is not owned"
            /\ a.type = "remote" =>
                  reason =
                    IF t = None THEN "Remote action requires a target"
                    ELSE IF ~reachable THEN "Cannot reach"
                    ELSE IF a.requires_cred /\ ~covered
                      THEN "Action requires credentials, but none available"
                    ELSE "Target is already owned"
            /\ a.type = "connect" =>
                  reason =
                    IF t = None THEN "Connect action requires a target"
                    ELSE IF ~owned(t) THEN "Cannot connect: not owned"
                    ELSE "No network path"

\* a remote action that is out of reach and also lacks its credential was
\* explained by the reachability
C31_Witness ==
    /\ op = "explain_invalid_action"
    /\ action_metadata[1].type = "remote"
    /\ action_metadata[1].requires_cred
    /\ ~has_credential_for(action_metadata[1].target)
    /\ ~can_reach(last_host, action_metadata[1].target)
    /\ explanation[1] = "Cannot reach"

(***************************************************************************)
(* SpecRecommend: one ActionMasker with current host h1, asked for the     *)
(* recommended actions of short action lists.                              *)
(***************************************************************************)
\* longest action list passed to get_recommended_actions, and largest top_k
MaxRecommend == 2

\* entries that differ in validity and in priority; the targets are h2
RecommendDescriptors ==
    { Action("scan", None, FALSE, None),
      Action("local", None, FALSE, None),
      Action("remote", "h2", FALSE, "exploit"),
      Action("remote", "h2", FALSE, None),
      Action("connect", "h2", FALSE, None) }

RecommendLists == UNION { [ 1..n -> RecommendDescriptors ] : n \in 0..MaxRecommend }

\* get_recommended_actions reads the episode state and writes none of it: a
\* call that follows another call returns what it returns alone, so the calls
\* explored are those that follow a change of the state
NextRecommend ==
    \/ /\ \E hv \in HostValues : AddHost(hv[1], hv[2])
       /\ Call("add_host")
       /\ UNCHANGED << rmVars, workerVars, managerVars, loopVars >>
    \/ /\ \E h \in HostIds : MarkOwned(h, "user")
       /\ Call("mark_owned")
       /\ UNCHANGED << rmVars, workerVars, managerVars, loopVars >>
    \/ /\ AddConnection("h1", "h2")
       /\ Call("add_connection")
       /\ UNCHANGED << rmVars, workerVars, managerVars, loopVars >>
    \/ /\ SetCurrentHost("h1")
       /\ Call("set_current_host")
       /\ UNCHANGED << rmVars, workerVars, managerVars, loopVars >>
    \/ /\ op # "get_recommended_actions"
       /\ \E metadata \in RecommendLists, k \in 1..MaxRecommend :
             GetRecommendedActions(metadata, k)
       /\ UNCHANGED << stateVars, rmVars, workerVars, managerVars, loopVars >>

SpecRecommend == Init /\ [][NextRecommend]_vars

\* C14: get_recommended_actions returns at most top_k entries; each is an
\* action whose mask bit is 1; priorities do not increase along the list and
\* equal priorities stand in increasing action index; no valid action that is
\* left out has a priority above that of a returned one.
C14_TopKValidSortedStable ==
    op = "get_recommended_actions" =>
        LET rec == recommendations
            priorities == get_action_priorities(action_metadata, mask)
            returned == { rec[j].action_id : j \in 1..Len(rec) }
        IN  /\ Len(rec) <= top_k
            /\ \A j \in 1..Len(rec) :
                  /\ rec[j].action_id \in 1..Len(action_metadata)
                  /\ mask[rec[j].action_id] = 1
                  /\ rec[j].priority = priorities[rec[j].action_id]
            /\ \A j \in 1..Len(rec), l \in 1..Len(rec) :
                  j < l =>
                    /\ rec[j].priority >= rec[l].priority
                    /\ rec[j].priority = rec[l].priority =>
                          rec[j].action_id < rec[l].action_id
            /\ \A i \in 1..Len(action_metadata) :
                  (mask[i] = 1 /\ i \notin returned) =>
                      \A j \in 1..Len(rec) : priorities[i] <= rec[j].priority

\* two valid actions of equal priority were returned together
C14_Witness ==
    /\ op = "get_recommended_actions"
    /\ Len(recommendations) = 2
    /\ recommendations[1].priority = recommendations[2].priority

(***************************************************************************)
(* SpecPriority: get_action_priorities asked for the scores of one action  *)
(* on host h2, while h2 is declared, discovered, owned and scanned and the *)
(* step counter runs past the scan cooldown.                               *)
(***************************************************************************)
\* longest action list passed to get_action_priorities
MaxPriorityActions == 1

\* record_action calls of an episode; the scan cooldown elapses within them
MaxPrioritySteps == 5

\* mark_scanned calls per host
MaxScans == 1

\* declared values of h2
PriorityValues == {0, 50, 100}

\* an action without target, remote actions with and without an exploit tool,
\* and an action with a target that is not remote
PriorityDescriptors ==
    { Action("scan", None, FALSE, None),
      Action("remote", "h2", FALSE, None),
      Action("remote", "h2", FALSE, "exploit"),
      Action("remote", "h2", FALSE, "metasploit"),
      Action("connect", "h2", FALSE, None) }

PriorityLists ==
    UNION { [ 1..n -> PriorityDescriptors ] : n \in 0..MaxPriorityActions }

\* get_action_priorities reads the episode state and writes none of it, so
\* the calls explored are those that follow a change of the state
NextPriority ==
    \/ /\ \E v \in PriorityValues : AddHost("h2", v)
       /\ Call("add_host")
       /\ UNCHANGED << rmVars, workerVars, managerVars, loopVars >>
    \/ /\ MarkDiscovered("h2")
       /\ Call("mark_discovered")
       /\ UNCHANGED << rmVars, workerVars, managerVars, loopVars >>
    \/ /\ MarkOwned("h2", "user")
       /\ Call("mark_owned")
       /\ UNCHANGED << rmVars, workerVars, managerVars, loopVars >>
    \/ /\ "h2" \in DOMAIN hosts => hosts["h2"].scan_count < MaxScans
       /\ MarkScanned("h2")
       /\ Call("mark_scanned")
       /\ UNCHANGED << rmVars, workerVars, managerVars, loopVars >>
    \/ /\ current_step < MaxPrioritySteps
       /\ RecordAction(ActionRecord(0, "scan", "h2", TRUE))
       /\ Call("record_action")
       /\ UNCHANGED << rmVars, workerVars, managerVars, loopVars >>
    \/ /\ op # "get_action_priorities"
       /\ \E metadata \in PriorityLists :
             \E valid_mask \in [ 1..Len(metadata) -> {0, 1} ] :
                GetActionPriorities(metadata, valid_mask)
       /\ UNCHANGED << stateVars, rmVars, workerVars, managerVars, loopVars >>

SpecPriority == Init /\ [][NextPriority]_vars

\* C21: get_action_priorities scores an action with mask 0 as 0 and an action
\* with mask 1 as min(1, p): p is 0.5, plus 0.3 * value / 100 for a known
\* target of positive value, plus 0.2 for a known target that is not owned,
\* the sum halved if the target fails can_scan, plus 0.3 for a remote action
\* with an exploit tool.  Every score lies in [0, 1], and a valid remote
\* action without exploit tool on a discovered, not owned host of value 50
\* whose cooldown has elapsed scores at least 0.85.  (Scores in 1/2000.)
C21_PriorityFormula ==
    op = "get_action_priorities" =>
        \A i \in 1..Len(action_metadata) :
            LET a == action_metadata[i]
                exists == a.target \in DOMAIN hosts
                value_part ==
                    IF exists /\ hosts[a.target].value > 0
                      THEN 6 * hosts[a.target].value ELSE 0
                unowned_part == IF exists /\ ~hosts[a.target].owned THEN 400 ELSE 0
                cooling ==
                    /\ exists
                    /\ current_step - hosts[a.target].last_scan_time < scan_cooldown
                sum == 1000 + value_part + unowned_part
                exploit_part ==
                    IF a.type = "remote" /\ a.tool \in {"exploit", "metasploit"}
                      THEN 600 ELSE 0
                p == (IF cooling THEN sum \div 2 ELSE sum) + exploit_part
            IN  /\ last_valid_mask[i] = 0 => last_priorities[i] = 0
                /\ last_valid_mask[i] = 1 =>
                      last_priorities[i] = (IF p > 2000 THEN 2000 ELSE p)
                /\ last_priorities[i] \in 0..2000
                /\ (/\ last_valid_mask[i] = 1
                    /\ a.type = "remote"
                    /\ a.tool \notin {"exploit", "metasploit"}
                    /\ exists
                    /\ hosts[a.target].discovered
                    /\ ~hosts[a.target].owned
                    /\ hosts[a.target].value = 50
                    /\ ~cooling) => last_priorities[i] >= 1700

\* the score of a valid remote exploit action on a known, not owned host in
\* scan cooldown was computed
C21_Witness ==
    /\ op = "get_action_priorities"
    /\ Len(action_metadata) = 1
    /\ last_valid_mask[1] = 1
    /\ action_metadata[1].type = "remote"
    /\ action_metadata[1].tool = "exploit"
    /\ "h2" \in DOMAIN hosts
    /\ ~hosts["h2"].owned
    /\ hosts["h2"].value = 50
    /\ ~can_scan("h2")
    /\ last_priorities[1] = 1450

(***************************************************************************)
(* SpecReward: one StepRewardCalculator with the default constants, asked  *)
(* for the reward of any outcome, cost and validity flag.                  *)
(***************************************************************************)
\* largest services_discovered and hosts_discovered count of an outcome
MaxDiscovered == 2

\* largest action cost
MaxCost == 3

\* host_value entries of an outcome
RewardHostValues == {0, 50}

ActionResults ==
    { ActionResult(c, v, k, sv, hd) :
        c \in BOOLEAN, v \in RewardHostValues, k \in BOOLEAN,
        sv \in 0..MaxDiscovered, hd \in 0..MaxDiscovered }

\* a call reward_calc.calculate_reward(result, cost, valid)
CalculateReward(result, cost, valid) ==
    /\ last_result' = result
    /\ last_cost' = cost
    /\ last_valid' = valid
    /\ step_reward' = calculate_reward(result, cost, valid)
    /\ op' = "calculate_reward"
    /\ NoMaskCall
    /\ NoDecisionCall
    /\ UNCHANGED << callVars, last_priorities, last_valid_mask, worker_feedback,
                    last_host, explanation >>
    /\ UNCHANGED << pc, episode_length, done, manager_steps, info >>

NextReward ==
    /\ \E result \in ActionResults, cost \in 0..MaxCost, valid \in BOOLEAN :
          CalculateReward(result, cost, valid)
    /\ UNCHANGED << stateVars, rmVars, workerVars, managerVars >>

SpecReward == Init /\ [][NextReward]_vars

MaxScanSteps == 6

\* mark_scanned calls on a host per episode
MaxRescans == 2

NextScan ==
    \/ /\ AddHost("h1", 0)
       /\ Call("add_host")
       /\ UNCHANGED << rmVars, workerVars, managerVars, loopVars >>
    \/ /\ MarkDiscovered("h1")
       /\ Call("mark_discovered")
       /\ UNCHANGED << rmVars, workerVars, managerVars, loopVars >>
    \/ /\ MarkOwned("h1", "user")
       /\ Call("mark_owned")
       /\ UNCHANGED << rmVars, workerVars, managerVars, loopVars >>
    \/ /\ \E h \in HostIds :
             /\ h \in DOMAIN hosts => hosts[h].scan_count < MaxRescans
             /\ MarkScanned(h)
       /\ Call("mark_scanned")
       /\ UNCHANGED << rmVars, workerVars, managerVars, loopVars >>
    \/ /\ current_step < MaxScanSteps
       /\ RecordAction(ActionRecord(0, "scan", "h1", TRUE))
       /\ Call("record_action")
       /\ UNCHANGED << rmVars, workerVars, managerVars, loopVars >>
    \/ /\ StateReset
       /\ Call("state_reset")
       /\ UNCHANGED << rmVars, workerVars, managerVars, loopVars >>

SpecScan == Init /\ [][NextScan]_vars

\* C24: can_scan(h) holds exactly if h is not in the host table or
\* current_step - last_scan_time(h) >= cooldown.  After mark_scanned(h),
\* can_scan(h) is false until cooldown record_action calls have been made and
\* true from then on until h is scanned again, and a discovered, not owned h
\* is left out of get_unexplored_hosts during exactly that window.
C24_ScanCooldownWindow ==
    \A h \in HostIds :
        /\ can_scan(h) <=>
              (h \notin DOMAIN hosts
                 \/ current_step - hosts[h].last_scan_time >= scan_cooldown)
        /\ h \in DOMAIN since_scan =>
              /\ can_scan(h) <=> since_scan[h] >= scan_cooldown
              /\ (hosts[h].discovered /\ ~hosts[h].owned) =>
                    (h \notin get_unexplored_hosts <=> since_scan[h] < scan_cooldown)

\* the cooldown of a scanned host that is discovered and not owned has just
\* elapsed
C24_Witness ==
    /\ "h1" \in DOMAIN since_scan
    /\ since_scan["h1"] = scan_cooldown
    /\ hosts["h1"].last_scan_time > 0
    /\ hosts["h1"].discovered
    /\ "h1" \in get_unexplored_hosts

\* C37: a host of the host table that was never scanned (scan count 0) is
\* never rate-limited: can_scan holds for it at every step, and when it is
\* discovered and not owned it is listed by get_unexplored_hosts.
C37_NeverScannedNotLimited ==
    \A h \in DOMAIN hosts :
        hosts[h].scan_count = 0 =>
            /\ can_scan(h)
            /\ (hosts[h].discovered /\ ~hosts[h].owned) => h \in get_unexplored_hosts

(***************************************************************************)
(* SpecState: one state manager driven through its interface.  Host h1 is  *)
(* declared at some point, h2 never is; edges, credentials and the calls   *)
(* that name a host name either; a recorded action is a new ActionRecord   *)
(* or an object recorded before.                                           *)
(***************************************************************************)
\* record_action calls of an episode
MaxHistory == 3

\* the call `name` of the state manager that names host h
CallOn(name, h) ==
    /\ op' = name
    /\ last_host' = h
    /\ explanation' = None
    /\ new_phase' = None
    /\ bonus_reward' = 0
    /\ milestone_bonus' = 0
    /\ goal_bonus' = 0
    /\ NoMaskCall
    /\ NoDecisionCall
    /\ last_priorities' = << >>
    /\ last_valid_mask' = << >>
    /\ worker_feedback' = NoReport
    /\ last_result' = NoResult
    /\ last_cost' = 0
    /\ last_valid' = TRUE

NextState ==
    \/ /\ AddHost("h1", 0)
       /\ CallOn("add_host", "h1")
       /\ UNCHANGED << rmVars, workerVars, managerVars, loopVars >>
    \/ /\ \E h \in HostIds : MarkDiscovered(h) /\ CallOn("mark_discovered", h)
       /\ UNCHANGED << rmVars, workerVars, managerVars, loopVars >>
    \/ /\ \E h \in HostIds : MarkOwned(h, "user") /\ CallOn("mark_owned", h)
       /\ UNCHANGED << rmVars, workerVars, managerVars, loopVars >>
    \/ /\ \E h \in HostIds :
             /\ AddService(h, "http", << "CVE-2021-1234" >>)
             /\ CallOn("add_service", h)
       /\ UNCHANGED << rmVars, workerVars, managerVars, loopVars >>
    \/ /\ \E h \in HostIds :
             /\ h \in DOMAIN hosts => hosts[h].scan_count < MaxRescans
             /\ MarkScanned(h)
             /\ CallOn("mark_scanned", h)
       /\ UNCHANGED << rmVars, workerVars, managerVars, loopVars >>
    \/ /\ \E e \in { << "h1", "h2" >>, << "h2", "h1" >> } : AddConnection(e[1], e[2])
       /\ Call("add_connection")
       /\ UNCHANGED << rmVars, workerVars, managerVars, loopVars >>
    \/ /\ AddCredential("c1", "password", {"h2"})
       /\ Call("add_credential")
       /\ UNCHANGED << rmVars, workerVars, managerVars, loopVars >>
    \/ /\ current_step < MaxHistory
       /\ \/ RecordAction(ActionRecord(0, "scan", None, TRUE))
          \/ \E i \in 1..Len(action_history) : RecordAction(action_history[i])
       /\ Call("record_action")
       /\ UNCHANGED << rmVars, workerVars, managerVars, loopVars >>
    \/ /\ StateReset
       /\ Call("state_reset")
       /\ UNCHANGED << rmVars, workerVars, managerVars, loopVars >>

SpecState == Init /\ [][NextState]_vars

\* C25: every record_action call appends one entry to the action history and
\* adds one to the step counter; no other operation but reset changes either;
\* so the history is as long as the step counter says, its i-th entry carries
\* step index i (counted from 0), and entries once appended are neither
\* altered nor removed before a reset.
C25_HistoryAppendOnly ==
    /\ [][ /\ op' = "record_action" =>
                /\ Len(action_history') = Len(action_history) + 1
                /\ current_step' = current_step + 1
           /\ op' \notin {"record_action", "state_reset"} =>
                /\ action_history' = action_history
                /\ current_step' = current_step
           /\ op' # "state_reset" =>
                \A i \in 1..Len(action_history) :
                    /\ i <= Len(action_history')
                    /\ action_history'[i] = action_history[i] ]_vars
    /\ [](/\ Len(action_history) = current_step
          /\ \A i \in 1..Len(action_history) : action_history[i].step = i - 1)

\* C26: mark_discovered, mark_owned, add_service and mark_scanned on a host
\* that is not in the host table leave the whole episode state as it is, and
\* for such a host can_reach is false, get_reachable_hosts is empty,
\* get_privilege is none, has_credential_for is false and get_host_by_id is
\* None.
C26_UnknownHostHarmless ==
    /\ [][ (/\ op' \in {"mark_discovered", "mark_owned", "add_service", "mark_scanned"}
            /\ last_host' \notin DOMAIN hosts) => UNCHANGED stateVars ]_vars
    /\ [](\A h \in HostIds \ DOMAIN hosts :
            /\ \A source \in HostIds : ~can_reach(source, h)
            /\ \A target \in HostIds : ~can_reach(h, target)
            /\ get_reachable_hosts(h) = {}
            /\ get_privilege(h) = "none"
            /\ ~has_credential_for(h)
            /\ get_host_by_id(h) = None)

\* C32: add_connection(s, t) adds the directed edge s -> t and changes nothing
\* else: no edge is removed, t -> s is not added, no host record appears, and
\* a call for an edge that exists changes nothing; no other call but a reset
\* changes the edges; can_reach(s, t) holds iff add_connection(s, t) was
\* called since the last reset.
C32_DirectedEdgeOnly ==
    /\ [][ /\ op' = "add_connection" =>
                /\ \E e \in edge_calls' :
                      /\ edge_calls' = edge_calls \cup {e}
                      /\ connectivity_matrix' = connectivity_matrix \cup {e}
                /\ edge_calls' = edge_calls => connectivity_matrix' = connectivity_matrix
                /\ UNCHANGED << hosts, privilege_matrix, credentials, action_history,
                                current_step, current_host, goal_hosts,
                                compromised_goals >>
           /\ op' \notin {"add_connection", "state_reset"} =>
                connectivity_matrix' = connectivity_matrix
           /\ op' # "state_reset" => connectivity_matrix \subseteq connectivity_matrix' ]_vars
    /\ [](\A s \in HostIds, t \in HostIds :
            can_reach(s, t) <=> << s, t >> \in edge_calls)

\* add_connection(h1, h2) was called for a host h2 that has no record, and
\* h1 cannot be reached from h2
C32_Witness ==
    /\ op = "add_connection"
    /\ can_reach("h1", "h2")
    /\ ~can_reach("h2", "h1")
    /\ "h2" \notin DOMAIN hosts
    /\ edge_calls = { << "h1", "h2" >> }

(***************************************************************************)
(* SpecHost: one state manager whose hosts are declared and updated by     *)
(* add_host with keyword attributes of HostState, discovered and owned.    *)
(***************************************************************************)
\* the keyword arguments handed to add_host
HostKwargs ==
    << EmptyDict,
       [ value |-> 50 ],
       [ discovered |-> TRUE ],
       [ owned |-> TRUE ],
       [ privilege_level |-> "admin" ],
       [ owned |-> FALSE, privilege_level |-> "none" ] >>

NextHost ==
    \/ /\ \E h \in HostIds, i \in 1..Len(HostKwargs) : AddHostKwargs(h, HostKwargs[i])
       /\ Call("add_host")
       /\ UNCHANGED << rmVars, workerVars, managerVars, loopVars >>
    \/ /\ \E h \in HostIds : MarkDiscovered(h)
       /\ Call("mark_discovered")
       /\ UNCHANGED << rmVars, workerVars, managerVars, loopVars >>
    \/ /\ \E h \in HostIds, p \in {"user", "admin"} : MarkOwned(h, p)
       /\ Call("mark_owned")
       /\ UNCHANGED << rmVars, workerVars, managerVars, loopVars >>
    \/ /\ StateReset
       /\ Call("state_reset")
       /\ UNCHANGED << rmVars, workerVars, managerVars, loopVars >>

SpecHost == Init /\ [][NextHost]_vars

\* C39: the privilege matrix agrees with the host table: a host has an entry
\* iff it is owned, and get_privilege(h) equals the privilege level of h's
\* record, also after add_host has merged attributes into an existing host.
C39_PrivilegeMatrixAgrees ==
    \A h \in HostIds :
        /\ h \in DOMAIN privilege_matrix <=> (h \in DOMAIN hosts /\ hosts[h].owned)
        /\ h \in DOMAIN hosts => get_privilege(h) = hosts[h].privilege_level

(***************************************************************************)
(* SpecReset: one state manager and one reward machine; every field of     *)
(* either is written before a reset.                                       *)
(***************************************************************************)
\* record_action calls between two resets
MaxResetSteps == 1

NextReset ==
    \/ /\ AddHost("h1", 0)
       /\ Call("add_host")
       /\ UNCHANGED << rmVars, workerVars, managerVars, loopVars >>
    \/ /\ MarkDiscovered("h1")
       /\ Call("mark_discovered")
       /\ UNCHANGED << rmVars, workerVars, managerVars, loopVars >>
    \/ /\ MarkOwned("h1", "user")
       /\ Call("mark_owned")
       /\ UNCHANGED << rmVars, workerVars, managerVars, loopVars >>
    \/ /\ SetGoalHosts({"h1"})
       /\ Call("set_goal_hosts")
       /\ UNCHANGED << rmVars, workerVars, managerVars, loopVars >>
    \/ /\ AddConnection("h1", "h2")
       /\ Call("add_connection")
       /\ UNCHANGED << rmVars, workerVars, managerVars, loopVars >>
    \/ /\ AddCredential("c1", "password", {"h1"})
       /\ Call("add_credential")
       /\ UNCHANGED << rmVars, workerVars, managerVars, loopVars >>
    \/ /\ SetCurrentHost("h1")
       /\ Call("set_current_host")
       /\ UNCHANGED << rmVars, workerVars, managerVars, loopVars >>
    \/ /\ current_step < MaxResetSteps
       /\ RecordAction(ActionRecord(0, "scan", "h1", TRUE))
       /\ Call("record_action")
       /\ UNCHANGED << rmVars, workerVars, managerVars, loopVars >>
    \/ /\ RmUpdate
       /\ op' = "update"
       /\ NoMaskCall
       /\ NoDecisionCall
       /\ NoQueryCall
       /\ UNCHANGED << stateVars, workerVars, managerVars, loopVars >>
    \/ /\ StateReset
       /\ Call("state_reset")
       /\ UNCHANGED << rmVars, workerVars, managerVars, loopVars >>
    \/ /\ RmReset
       /\ Call("rm_reset")
       /\ UNCHANGED << stateVars, workerVars, managerVars, loopVars >>

SpecReset == Init /\ [][NextReset]_vars

\* C15: after reset the state manager is as a new one (no host owned or
\* discovered, empty connectivity, credentials, goal sets and action history,
\* step 0, no current host, derived phase reconnaissance), and after reset
\* the reward machine is as a new one (tracked phase reconnaissance, phase
\* history [reconnaissance], no milestone recorded).
C15_ResetRestoresFreshState ==
    /\ op = "state_reset" =>
          /\ get_owned_hosts = {}
          /\ get_discovered_hosts = {}
          /\ DOMAIN hosts = {}
          /\ connectivity_matrix = {}
          /\ DOMAIN credentials = {}
          /\ DOMAIN privilege_matrix = {}
          /\ goal_hosts = {}
          /\ compromised_goals = {}
          /\ action_history = << >>
          /\ current_step = 0
          /\ current_host = None
          /\ get_penetration_phase = "reconnaissance"
    /\ op = "rm_reset" =>
          /\ current_phase = "reconnaissance"
          /\ phase_history = << "reconnaissance" >>
          /\ \A p \in Phases : milestones[p] = << >>

\* the state manager was reset after the goal had been reached and tracked
C15_Witness ==
    /\ op = "state_reset"
    /\ current_phase = "goal_achieved"

(***************************************************************************)
(* Claims checked under Spec                                               *)
(***************************************************************************)
\* C1: between two resets of the reward machine the tracked phase never moves
\* down the phase order, whatever happens to the episode state in between, and
\* an update whose derived phase is not above the tracked phase leaves the
\* tracked phase as it was.
C1_TrackedPhaseNonDecreasing ==
    [][ /\ op' # "rm_reset" =>
             PhaseIndex(current_phase') >= PhaseIndex(current_phase)
        /\ (op' = "update" /\ PhaseIndex(new_phase') <= PhaseIndex(current_phase)) =>
             current_phase' = current_phase ]_vars

\* an update has just seen a derived phase below the tracked one
C1_Witness ==
    /\ op = "update"
    /\ PhaseIndex(new_phase) < PhaseIndex(current_phase)

\* C2: no mark_owned call lowers the privilege recorded for a host, in the
\* host record or in the privilege matrix.
C2_PrivilegeNeverDecreases ==
    [][ op' = "mark_owned" =>
          \A h \in DOMAIN hosts :
             /\ PrivRank(hosts'[h].privilege_level) >= PrivRank(hosts[h].privilege_level)
             /\ h \in DOMAIN privilege_matrix =>
                   PrivRank(privilege_matrix'[h]) >= PrivRank(privilege_matrix[h]) ]_vars

\* C4: between two resets of the reward machine no milestone bonus is paid
\* more than once.
C4_MilestonePaidAtMostOnce ==
    \A m \in MilestoneNames : milestone_payments[m] <= 1

\* an update has just found the condition of an already paid milestone to hold
\* again, in the phase that checks it
C4_Witness ==
    /\ op = "update"
    /\ \E p \in Phases :
          /\ current_phase = p
          /\ MilestoneName(p) \in MilestoneNames
          /\ MilestoneCondition(p)
          /\ milestone_payments[MilestoneName(p)] = 1
          /\ milestone_bonus = 0

\* C5: an update pays the goal bonus exactly when it moves the tracked phase to
\* goal_achieved, and then returns the transition bonus plus the goal bonus;
\* no update that leaves the tracked phase below goal_achieved, and no later
\* update before reset, pays it.
C5_GoalBonusExactlyOnce ==
    [][ op' = "update" =>
          /\ goal_bonus' > 0 <=>
                (current_phase # "goal_achieved" /\ current_phase' = "goal_achieved")
          /\ goal_bonus' > 0 =>
                /\ goal_bonus' = goal_achievement_reward
                /\ bonus_reward' =
                      phase_transition_reward + milestone_bonus' + goal_achievement_reward
          /\ goal_bonus' = 0 =>
                bonus_reward' \in { milestone_bonus',
                                    phase_transition_reward + milestone_bonus' } ]_vars

\* an update has just paid the goal bonus together with the transition bonus
C5_Witness ==
    /\ op = "update"
    /\ current_phase = "goal_achieved"
    /\ goal_bonus = goal_achievement_reward
    /\ bonus_reward = phase_transition_reward + goal_achievement_reward

\* C16: with a goal host declared, the derived phase is goal_achieved exactly
\* when every declared goal host is owned, in whatever order the hosts were
\* declared as goals, added and marked owned.
C16_GoalAchievedIffAllGoalsOwned ==
    goal_hosts # {} =>
        (get_penetration_phase = "goal_achieved"
            <=> \A g \in goal_hosts : g \in DOMAIN hosts /\ hosts[g].owned)

C27_TransitionBonusOnForwardProgress ==
    /\ [][ op' = "update" =>
            LET higher == PhaseIndex(new_phase') > PhaseIndex(current_phase)
                transition_bonus == bonus_reward' - milestone_bonus' - goal_bonus'
            IN  /\ transition_bonus = (IF higher THEN phase_transition_reward ELSE 0)
                /\ higher =>
                      /\ current_phase' = new_phase'
                      /\ phase_history' = Append(phase_history, new_phase')
                /\ ~higher =>
                      /\ current_phase' = current_phase
                      /\ phase_history' = phase_history ]_vars
    /\ [](Len(phase_history) - 1 <= 4)

\* an update has just moved the tracked phase from reconnaissance past
\* initial_access and paid one transition bonus
C27_Witness ==
    /\ op = "update"
    /\ phase_history = << "reconnaissance", "privilege_escalation" >>
    /\ bonus_reward - milestone_bonus - goal_bonus = phase_transition_reward

\* C28: while the tracked phase is reconnaissance, the first update made with
\* at least one host discovered pays the milestone bonus and records
\* first_discovery.
C28_FirstDiscoveryMilestone ==
    [][ (/\ op' = "update"
         /\ current_phase = "reconnaissance"
         /\ Cardinality(get_discovered_hosts) >= 1
         /\ "first_discovery" \notin Range(milestones["reconnaissance"])) =>
            /\ milestone_bonus' = milestone_reward
            /\ "first_discovery" \in Range(milestones'["reconnaissance"]) ]_vars

\* C29: while the tracked phase is initial_access, the first update made with
\* at least one host owned pays the milestone bonus and records
\* first_compromise.
C29_FirstCompromiseMilestone ==
    [][ (/\ op' = "update"
         /\ current_phase = "initial_access"
         /\ Cardinality(get_owned_hosts) >= 1
         /\ "first_compromise" \notin Range(milestones["initial_access"])) =>
            /\ milestone_bonus' = milestone_reward
            /\ "first_compromise" \in Range(milestones'["initial_access"]) ]_vars

\* C30: once the tracked phase is goal_achieved, every update before the next
\* reset of the reward machine returns 0 and leaves the tracked phase, the
\* phase history and the milestone records as they are, whatever the episode
\* state has become.
C30_GoalAchievedTerminal ==
    [][ (op' = "update" /\ current_phase = "goal_achieved") =>
            /\ bonus_reward' = 0
            /\ UNCHANGED << current_phase, phase_history, milestones >> ]_vars

\* an update has just found the tracked phase at goal_achieved while the
\* episode state, reset in between, derives reconnaissance
C30_Witness ==
    /\ op = "update"
    /\ current_phase = "goal_achieved"
    /\ new_phase = "reconnaissance"
    /\ bonus_reward = 0

\* C33: the phase history starts as [reconnaissance]; a step other than a
\* reset leaves it or appends one phase to it, and it appends only in an update
\* whose derived phase differs from the last recorded phase; the history is
\* strictly increasing in phase order and its last element is the tracked
\* current phase.
C33_PhaseHistoryAppendOnly ==
    /\ [][ /\ op' = "rm_reset" => phase_history' = << "reconnaissance" >>
           /\ op' # "rm_reset" =>
                \/ phase_history' = phase_history
                \/ /\ op' = "update"
                   /\ new_phase' # phase_history[Len(phase_history)]
                   /\ phase_history' = Append(phase_history, new_phase') ]_vars
    /\ [](/\ op = "init" => phase_history = << "reconnaissance" >>
          /\ phase_history[1] = "reconnaissance"
          /\ \A i \in 1..(Len(phase_history) - 1) :
                PhaseIndex(phase_history[i]) < PhaseIndex(phase_history[i + 1])
          /\ phase_history[Len(phase_history)] = current_phase)

\* the history has grown twice and an update has just found a derived phase
\* below the tracked one
C33_Witness ==
    /\ op = "update"
    /\ Len(phase_history) = 3
    /\ PhaseIndex(new_phase) < PhaseIndex(current_phase)

\* C36: an update made right after an update, with the episode state as the
\* first one found it, returns 0 and leaves the tracked phase, the phase
\* history and the milestone records as they are.
C36_UpdateIdempotent ==
    /\ [][ (op = "update" /\ op' = "update") =>
              /\ bonus_reward' = 0
              /\ UNCHANGED << current_phase, phase_history, milestones >> ]_vars
    /\ [](op = "update" =>
            /\ update.bonus_reward = 0
            /\ update.current_phase = current_phase
            /\ update.phase_history = phase_history
            /\ update.milestones = milestones)

\* an update has just paid a transition bonus and a milestone bonus, and the
\* next one on the same episode state pays nothing
C36_Witness ==
    /\ op = "update"
    /\ bonus_reward = phase_transition_reward + milestone_reward
    /\ Len(phase_history) = 2
    /\ update.bonus_reward = 0

\* C38: every owned host is also discovered, so there are never more owned
\* hosts than discovered hosts.
C38_OwnedAreDiscovered ==
    /\ get_owned_hosts \subseteq get_discovered_hosts
    /\ Cardinality(get_owned_hosts) <= Cardinality(get_discovered_hosts)

====
